---- MODULE Spec2Model ----
(***************************************************************************)
(* goodreads-explorer: the rate-limited, retrying fetch client and the     *)
(* scrape orchestrator of GoodreadsScraper (scrapers/goodreads_scraper.py).*)
(*                                                                         *)
(* The specifications share the variables:                                 *)
(*   SpecFetch  the fetch client step by step (one HTTP request per step)  *)
(*              on a discrete clock: _enforce_rate_limit, client.get, the  *)
(*              status classification and the backoff sleeps;              *)
(*   Spec       scrape_library: discovery, per-shelf crawl, per-item       *)
(*              enrichment, conversion; every fetch is one call of         *)
(*              FetchWithRetry, the same classification run to its end.    *)
(*   FairSpec   Spec with weak fairness of its steps, for termination.     *)
(***************************************************************************)
EXTENDS Integers, Sequences, FiniteSets, TLC

(***************************************************************************)
(* Bounds of the model (not program constants).                            *)
(***************************************************************************)
MaxTime == 12
MaxJitter == 1
MaxDelay == 2
MaxRetriesCfg == 3
MaxId == 2
MaxRows == 2
MaxPages == 2
MaxShelves == 2
MaxLimit == 1
MaxDay == 2
MaxNames == 3
MaxGenres == 2
MaxLinks == 2
MaxTableRows == 2
MaxItems == 2

(***************************************************************************)
(* Program constants.                                                      *)
(***************************************************************************)
ShelvesMaxLength == 100
GenreMaxChars == 50
GenresMaxEntries == 50
BookGenresMaxLength == 100
BackoffBase == 2
DefaultMaxRetries == 3

(***************************************************************************)
(* Optional values: Python None is the empty tuple, a value v is <<v>>.    *)
(***************************************************************************)
None == <<>>

Some(v) == <<v>>

IsNone(o) == o = <<>>

Get(o) == o[1]

(***************************************************************************)
(* What one client.get(url) can end in: an HTTP status, or an exception of *)
(* the transport.                                                          *)
(***************************************************************************)
Responses == {"200", "404", "429", "400", "500", "ConnectError", "TimeoutException"}

FetchKinds == {"discovery", "listing", "status", "detail"}

TerminalErrors == {"RateLimitError", "InvalidURLError", "NetworkError"}

VARIABLES
    \* configuration (GoodreadsScraper.__init__)
    rate_limit_delay, max_retries,
    \* the rate limiter's clock
    now, last_request_time,
    \* position inside _fetch_with_retry
    fpc, attempt, fetch_kind, last_response, fetch_result,
    \* observation of the requests and sleeps
    prev_dispatch, dispatch, requests, backoffs,
    \* configuration of the orchestrator
    limit, progress_callback, profile,
    \* scrape_library: position, locals, result
    phase, error, username, shelves_to_scrape, shelf_idx, page_num, shelf_books,
    all_books, seen_book_ids, has_next_page, i, library,
    \* observation: the last fetch call, the progress notifications, the shelf
    \* and the row with which each item id was first extracted
    last_fetch, progress, extracted_ids, first_met,
    \* a call of a function of the models, validators and exporters: the
    \* function, its argument, what it returned
    op, arg, ret

fetch_vars == <<rate_limit_delay, max_retries, now, last_request_time, fpc, attempt,
                fetch_kind, last_response, fetch_result, prev_dispatch, dispatch,
                requests, backoffs>>

scrape_vars == <<limit, progress_callback, profile, phase, error, username, shelves_to_scrape,
                 shelf_idx, page_num, shelf_books, all_books, seen_book_ids,
                 has_next_page, i, library, last_fetch, progress, extracted_ids,
                 first_met>>

call_vars == <<op, arg, ret>>

vars == <<fetch_vars, scrape_vars, call_vars>>

(***************************************************************************)
(* _enforce_rate_limit: the clock value recorded as last_request_time.     *)
(* t is time.time() on entry; the sleep lasts at least sleep_time, over    *)
(* is what the scheduler adds.                                             *)
(***************************************************************************)
EnforceRateLimitNoSleep(t, last, delay, over) == t

EnforceRateLimit(t, last, delay, over) ==
    LET time_since_last_request == t - last
    IN  IF time_since_last_request < delay
        THEN t + (delay - time_since_last_request) + over
        ELSE t

(***************************************************************************)
(* Status classification of one attempt (lines 443-493):                   *)
(* "return" the body, "retry" (transient), or the exception raised.        *)
(***************************************************************************)
ClassifyRetry429(resp) ==
    CASE resp = "200" -> "return"
      [] resp = "404" -> "InvalidURLError"
      [] resp \in {"429", "500", "ConnectError", "TimeoutException"} -> "retry"
      [] OTHER -> "NetworkError"

Classify(resp) ==
    CASE resp = "200" -> "return"
      [] resp = "429" -> "RateLimitError"
      [] resp = "404" -> "InvalidURLError"
      [] resp = "500" -> "retry"
      [] resp \in {"ConnectError", "TimeoutException"} -> "retry"
      [] OTHER -> "NetworkError"

\* another attempt follows a transient failure of attempt number a (0-based)
HasNextAttempt(a, retries) == a < retries - 1

WaitTimeLinear(a) == BackoffBase * a

\* wait_time = 2 ** attempt
WaitTime(a) == BackoffBase ^ a

(***************************************************************************)
(* The order in which scrape_library calls _fetch_with_retry: the          *)
(* discovery page (line 134), listing pages (191), then per item the       *)
(* status page (280, skipped without review_url) and the detail page (333).*)
(***************************************************************************)
NextKinds(k) ==
    CASE k = "none" -> {"discovery"}
      [] k = "discovery" -> {"listing"}
      [] k = "listing" -> {"listing", "status", "detail"}
      [] k = "status" -> {"detail"}
      [] OTHER -> {"status", "detail"}

\* a terminal error of a status or detail fetch is caught by the except
\* clauses at lines 318 and 346; any other propagates out of scrape_library
CaughtByCaller(k) == k \in {"status", "detail"}

AfterRaise(k) == IF CaughtByCaller(k) THEN "idle" ELSE "aborted"

(***************************************************************************)
(* SpecFetch: the fetch client, one request per step.                      *)
(***************************************************************************)
FetchIdle ==
    /\ now \in 0..MaxDelay
    /\ last_request_time = 0
    /\ fpc = "idle"
    /\ attempt = 0
    /\ fetch_kind = "none"
    /\ last_response = "none"
    /\ fetch_result = "none"
    /\ prev_dispatch = None
    /\ dispatch = None
    /\ requests = 0
    /\ backoffs = <<>>

ScrapeIdle ==
    /\ phase = "start"
    /\ error = "none"
    /\ username = "unknown"
    /\ shelves_to_scrape = <<>>
    /\ shelf_idx = 1
    /\ page_num = 1
    /\ shelf_books = <<>>
    /\ all_books = <<>>
    /\ seen_book_ids = {}
    /\ has_next_page = FALSE
    /\ i = 1
    /\ library = None
    /\ last_fetch = [kind |-> "none", target |-> <<>>, ok |-> TRUE, html |-> ""]
    /\ progress = <<>>
    /\ extracted_ids = {}
    /\ first_met = [g \in 1..MaxId |-> None]

CallIdle ==
    /\ op = "none"
    /\ arg = <<>>
    /\ ret = <<>>

InitFetch ==
    /\ rate_limit_delay \in 1..MaxDelay
    /\ max_retries \in 0..MaxRetriesCfg
    /\ FetchIdle
    /\ limit = None
    /\ progress_callback = FALSE
    /\ profile = [is_valid |-> TRUE, user_id |-> Some("172435467"),
                  url_username |-> "unknown"]
    /\ ScrapeIdle
    /\ CallIdle

\* time passes (a response is awaited, a page is parsed)
Tick ==
    /\ UNCHANGED <<scrape_vars, call_vars>>
    /\ now < MaxTime
    /\ now' = now + 1
    /\ UNCHANGED <<rate_limit_delay, max_retries, last_request_time, fpc, attempt,
                   fetch_kind, last_response, fetch_result, prev_dispatch, dispatch,
                   requests, backoffs>>

\* scrape_library enters _fetch_with_retry
CallFetch(k) ==
    /\ UNCHANGED <<scrape_vars, call_vars>>
    /\ fpc = "idle"
    /\ k \in NextKinds(fetch_kind)
    /\ fetch_kind' = k
    /\ attempt' = 0
    /\ last_response' = "none"
    /\ requests' = 0
    /\ backoffs' = <<>>
    /\ fetch_result' = "pending"
    /\ fpc' = "attempt"
    /\ UNCHANGED <<rate_limit_delay, max_retries, now, last_request_time,
                   prev_dispatch, dispatch>>

\* line 495: `for attempt in range(self.max_retries)` has run out (with
\* max_retries = 0 its body never runs)
Exhausted ==
    /\ UNCHANGED <<scrape_vars, call_vars>>
    /\ fpc = "attempt"
    /\ attempt >= max_retries
    /\ fetch_result' = "NetworkError"
    /\ fpc' = AfterRaise(fetch_kind)
    /\ UNCHANGED <<rate_limit_delay, max_retries, now, last_request_time, attempt,
                   fetch_kind, last_response, prev_dispatch, dispatch, requests, backoffs>>

\* lines 437-440: _enforce_rate_limit(), then client.get(url) is sent
Dispatch ==
    /\ UNCHANGED <<scrape_vars, call_vars>>
    /\ fpc = "attempt"
    /\ attempt < max_retries
    /\ \E over \in 0..MaxJitter :
         LET t == EnforceRateLimit(now, last_request_time, rate_limit_delay, over)
         IN  /\ t <= MaxTime
             /\ now' = t
             /\ last_request_time' = t
             /\ prev_dispatch' = dispatch
             /\ dispatch' = Some(t)
    /\ requests' = requests + 1
    /\ fpc' = "await"
    /\ UNCHANGED <<rate_limit_delay, max_retries, attempt, fetch_kind, last_response,
                   fetch_result, backoffs>>

\* lines 443-493: the response (or transport exception) of the attempt
Respond(resp) ==
    /\ UNCHANGED <<scrape_vars, call_vars>>
    /\ fpc = "await"
    /\ last_response' = resp
    /\ LET c == Classify(resp)
       IN  CASE c = "return" ->
                  /\ fetch_result' = "ok"
                  /\ fpc' = "idle"
                  /\ UNCHANGED <<now, attempt, backoffs>>
             [] c = "retry" /\ HasNextAttempt(attempt, max_retries) ->
                  /\ \E over \in 0..MaxJitter :
                       /\ now + WaitTime(attempt) + over <= MaxTime
                       /\ now' = now + WaitTime(attempt) + over
                  /\ backoffs' = Append(backoffs, WaitTime(attempt))
                  /\ attempt' = attempt + 1
                  /\ fpc' = "attempt"
                  /\ UNCHANGED fetch_result
             [] c = "retry" /\ ~HasNextAttempt(attempt, max_retries) ->
                  /\ fetch_result' = "NetworkError"
                  /\ fpc' = AfterRaise(fetch_kind)
                  /\ UNCHANGED <<now, attempt, backoffs>>
             [] OTHER ->
                  /\ fetch_result' = c
                  /\ fpc' = AfterRaise(fetch_kind)
                  /\ UNCHANGED <<now, attempt, backoffs>>
    /\ UNCHANGED <<rate_limit_delay, max_retries, last_request_time, fetch_kind,
                   prev_dispatch, dispatch, requests>>

NextFetch ==
    \/ Tick
    \/ \E k \in FetchKinds : CallFetch(k)
    \/ Exhausted
    \/ Dispatch
    \/ \E resp \in Responses : Respond(resp)

SpecFetch == InitFetch /\ [][NextFetch]_vars

(***************************************************************************)
(* Spec: scrape_library.  Pure parts first.                                *)
(***************************************************************************)

\* _fetch_with_retry run to its end on the responses resps[1], resps[2], ...
\* of its attempts, from attempt a on: "ok" or the exception raised
RECURSIVE FetchWithRetry(_, _, _)
FetchWithRetry(resps, a, retries) ==
    IF a >= retries
    THEN "NetworkError"
    ELSE LET c == Classify(resps[a + 1])
         IN  CASE c = "return" -> "ok"
               [] c = "retry" -> IF HasNextAttempt(a, retries)
                                 THEN FetchWithRetry(resps, a + 1, retries)
                                 ELSE "NetworkError"
               [] OTHER -> c

\* what a _fetch_with_retry call can end in, by max_retries
FetchOutcomes ==
    [retries \in 0..MaxRetriesCfg |->
        {FetchWithRetry(resps, 0, retries) : resps \in [1..retries -> Responses]}]

SeqsUpTo(S, n) == UNION {[1..k -> S] : k \in 0..n}

Contains(seq, x) == \E k \in 1..Len(seq) : seq[k] = x

Ids(books) == {books[k].goodreads_id : k \in 1..Len(books)}

\* _map_shelf_to_reading_status
BuiltinShelves ==
    {"read", "currently-reading", "to-read", "did-not-finish", "paused", "reference",
     "to-read-next", "to-read-owned"}

MapShelfToReadingStatus(shelf_slug) ==
    IF shelf_slug \in BuiltinShelves THEN Some(shelf_slug) ELSE None

\* _is_private_profile: the indicators are searched in html.lower()
PrivateIndicators == {"this profile is private", "privateProfile", "profile-private"}

\* str.lower of the texts that carry upper-case letters
LowerText ==
    [text \in STRING |->
    CASE text = "This profile is private" -> "this profile is private"
      [] text = "privateProfile" -> "privateprofile"
      [] text = "READ" -> "read"
      [] text = "Favorites" -> "favorites"
      [] text = " Read " -> " read "
      [] text = "HTTPS://" -> "https://"
      [] text = "/User/Show/" -> "/user/show/"
      [] text = "Next" -> "next"
      [] text = "Next >" -> "next >"
      [] OTHER -> text]

Lower(text) == LowerText[text]

\* str.strip of the texts that carry surrounding whitespace
StripText ==
    [text \in STRING |->
    CASE text = " Read " -> "Read"
      [] text = " read " -> "read"
      [] text = " " -> ""
      [] OTHER -> text]

Strip(text) == StripText[text]

IsPrivateProfile(html) == Lower(html) \in PrivateIndicators

\* the rows parse_book_row accepts (title and author present); goodreads_id 0
\* stands for a row whose title link has no /book/show/ id
\* two kinds of row: a bare one (no shelf cell, no date, no view link) and
\* a full one
RowVariants ==
    {[review_url |-> FALSE, shelves |-> None, date_added |-> None],
     [review_url |-> TRUE, shelves |-> Some(<<"favorites">>), date_added |-> Some("d1")]}

ListingRows ==
    {[goodreads_id |-> g, review_url |-> v.review_url, shelves |-> v.shelves,
      date_added |-> v.date_added] : g \in 0..MaxId, v \in RowVariants}

\* the rows extract_books_from_table returns for a page
ListingBooks == SeqsUpTo(ListingRows, MaxRows)

\* parse_library_page of a listing page; page MaxPages is the last one
ListingPages(p) ==
    {[books |-> b, has_next_page |-> h] :
        b \in ListingBooks,
        h \in IF p < MaxPages THEN BOOLEAN ELSE {FALSE}}

\* lines 200-201: the row as the dict kept in all_books, tagged with the
\* reading status of the shelf being crawled
TagRow(row, reading_status) ==
    [goodreads_id |-> row.goodreads_id, reading_status |-> reading_status,
     shelves |-> row.shelves, date_added |-> row.date_added,
     review_url |-> row.review_url, publisher |-> None, read_records |-> None]

FilterNewAll(books, k, seen, shelf, new, lim) ==
    LET kept == SelectSeq(books, LAMBDA b : b.goodreads_id # 0)
    IN  [new_books |-> kept, seen_book_ids |-> seen \cup Ids(kept),
         shelf_books |-> shelf \o [j \in 1..Len(kept) |-> kept[j].goodreads_id]]

FilterNewFirstOnly(books, k, seen, shelf, new, lim) ==
    LET kept == SelectSeq(books, LAMBDA b : b.goodreads_id # 0 /\ b.goodreads_id \notin seen)
    IN  IF kept = <<>>
        THEN [new_books |-> <<>>, seen_book_ids |-> seen, shelf_books |-> shelf]
        ELSE [new_books |-> <<kept[1]>>, seen_book_ids |-> seen \cup {kept[1].goodreads_id},
              shelf_books |-> Append(shelf, kept[1].goodreads_id)]

\* lines 204-214: the de-duplication loop over books_on_page from row k on
RECURSIVE FilterNew(_, _, _, _, _, _)
FilterNew(books, k, seen, shelf, new, lim) ==
    IF k > Len(books)
    THEN [new_books |-> new, seen_book_ids |-> seen, shelf_books |-> shelf]
    ELSE LET book_id == books[k].goodreads_id
         IN  IF book_id # 0 /\ book_id \notin seen
             THEN IF ~IsNone(lim) /\ Len(shelf) + 1 >= Get(lim)
                  THEN [new_books |-> Append(new, books[k]),
                        seen_book_ids |-> seen \cup {book_id},
                        shelf_books |-> Append(shelf, book_id)]
                  ELSE FilterNew(books, k + 1, seen \cup {book_id},
                                 Append(shelf, book_id), Append(new, books[k]), lim)
             ELSE FilterNew(books, k + 1, seen, shelf, new, lim)

\* the first row of a page that carries item id g
FirstWithId(books, g) ==
    books[CHOOSE k \in 1..Len(books) :
              books[k].goodreads_id = g /\ \A j \in 1..(k - 1) : books[j].goodreads_id # g]

LimitReachedNever(lim, shelf) == FALSE

\* line 237: the per-shelf limit is reached
LimitReached(lim, shelf) == ~IsNone(lim) /\ Len(shelf) >= Get(lim)

\* parse_review_page_shelves: reading status of the last of the three
\* status shelves in the list
StatusFromReview(shelves) ==
    LET at == {k \in 1..Len(shelves) :
                   shelves[k] \in {"read", "currently-reading", "to-read"}}
    IN  IF at = {} THEN None
        ELSE Some(shelves[CHOOSE k \in at : \A j \in at : j <= k])

\* what the status page of an item yields: parse_review_page_shelves
\* (fail: it raises)
StatusContents ==
    {[shelves |-> <<>>, date_added |-> None, read_records |-> <<>>, publisher |-> None],
     [shelves |-> <<"to-read", "read">>, date_added |-> Some("d2"),
      read_records |-> <<[date_started |-> Some(1), date_finished |-> Some(2)]>>,
      publisher |-> Some("P1")]}

StatusPages ==
    {[shelves |-> c.shelves, date_added |-> c.date_added, read_records |-> c.read_records,
      publisher |-> c.publisher, fail |-> f] :
        c \in StatusContents, f \in BOOLEAN}

ResetOnError(book_data) ==
    [book_data EXCEPT !.shelves = None, !.date_added = None, !.publisher = None]

\* lines 318-324, 346-352: the except branch of an enrichment step logs a
\* warning and leaves the item as it is
KeepOnError(book_data) == book_data

ApplyStatusPageFromReview(book_data, sp) ==
    LET reading_status == StatusFromReview(sp.shelves)
        shelved == [book_data EXCEPT !.reading_status = reading_status,
                                     !.shelves = Some(sp.shelves),
                                     !.date_added = sp.date_added,
                                     !.read_records = Some(sp.read_records)]
    IN  IF sp.fail THEN KeepOnError(book_data) ELSE shelved

\* lines 283-316 on one book_data dict
ApplyStatusPage(book_data, sp) ==
    LET reading_status == IF IsNone(book_data.reading_status)
                          THEN StatusFromReview(sp.shelves)
                          ELSE book_data.reading_status
        shelves == IF ~IsNone(reading_status) /\ ~Contains(sp.shelves, Get(reading_status))
                   THEN <<Get(reading_status)>> \o sp.shelves
                   ELSE sp.shelves
        read_records == IF reading_status = Some("read") /\ sp.read_records = <<>>
                        THEN <<[date_started |-> None, date_finished |-> None]>>
                        ELSE sp.read_records
        shelved == [book_data EXCEPT !.reading_status = reading_status,
                                     !.shelves = Some(shelves),
                                     !.date_added = sp.date_added,
                                     !.read_records = Some(read_records)]
    IN  IF sp.fail
        THEN KeepOnError(book_data)
        ELSE IF ~IsNone(sp.publisher)
             THEN [shelved EXCEPT !.publisher = sp.publisher]
             ELSE shelved

\* what parse_book_page yields for the detail page (fail: it raises)
DetailPages == {[publisher |-> pb, fail |-> f] : pb \in {None, Some("P2")}, f \in BOOLEAN}

\* lines 336-344 on one book_data dict
ApplyDetailPage(book_data, dp) ==
    IF dp.fail
    THEN KeepOnError(book_data)
    ELSE IF IsNone(dp.publisher)
         THEN book_data
         ELSE [book_data EXCEPT !.publisher = dp.publisher]

NotifyNothing(log, current, total, step) == log

\* lines 229-234, 362-367
Notify(log, current, total, step) ==
    IF progress_callback
    THEN Append(log, [current |-> current, total |-> total, step |-> step])
    ELSE log

\* the profile URL as validate_goodreads_profile_url sees it (a rejected
\* URL has no user id), and the username lines 118-123 cut out of it
Profiles ==
    {[is_valid |-> FALSE, user_id |-> None, url_username |-> "unknown"]} \cup
    {[is_valid |-> TRUE, user_id |-> Some("172435467"), url_username |-> u] :
        u \in {"tim-brown"}}

RejectsNothing(p) == FALSE

\* line 104
RejectsProfile(p) == ~p.is_valid \/ IsNone(p.user_id)

\* the discovery page: private marker text, parsed username, shelf facets
ShelfSlugs == {"all", "read", "abandoned"}

DiscoveryPages ==
    {[html |-> m, username |-> u, shelves |-> sh] :
        m \in {"", "This profile is private", "privateProfile", "profile-private"},
        u \in {"alice"},
        sh \in SeqsUpTo(ShelfSlugs, MaxShelves)}

\* line 150
ExcludeAll(shelves) == SelectSeq(shelves, LAMBDA slug : slug # "all")

\* ReadRecord.validate_dates
ValidReadRecord(r) ==
    (~IsNone(r.date_started) /\ ~IsNone(r.date_finished)) =>
        Get(r.date_started) <= Get(r.date_finished)

\* the values of the ReadingStatus enum
ReadingStatus == BuiltinShelves

\* Shelf(name=..., is_builtin=...): the name is stripped (str_strip_whitespace),
\* has min_length 1 and is then normalized by normalize_name
ShelfRaises(name) == Strip(name) = ""

Shelf(name, is_builtin) == [name |-> Lower(Strip(name)), is_builtin |-> is_builtin]

KeepAllShelves(shelves) == shelves

\* UserBookRelation.deduplicate_shelves: the loop appends a shelf when no
\* shelf before it has the same name in lower case
DeduplicateShelves(shelves) ==
    LET unique == {k \in 1..Len(shelves) :
                      \A j \in 1..(k - 1) : Lower(shelves[j].name) # Lower(shelves[k].name)}
    IN  [m \in 1..Cardinality(unique) |->
            shelves[CHOOSE k \in unique : Cardinality({j \in unique : j <= k}) = m]]

\* UserBookRelation(**kwargs): the field constraints that make construction
\* fail (shelves: 1 to ShelvesMaxLength entries; user_rating: 1 to 5)
UserBookRelationRaises(kwargs) ==
    \/ Len(kwargs.shelves) < 1
    \/ Len(kwargs.shelves) > ShelvesMaxLength
    \/ ~IsNone(kwargs.user_rating) /\ Get(kwargs.user_rating) \notin 1..5

\* the relation constructed: the declared fields of kwargs (there is no
\* field date_started or date_finished, keyword arguments that are no
\* field are ignored), the shelves deduplicated
UserBookRelation(kwargs) ==
    [user_rating |-> kwargs.user_rating, reading_status |-> kwargs.reading_status,
     shelves |-> DeduplicateShelves(kwargs.shelves),
     read_records |-> kwargs.read_records]

ShelfModelsNoFallback(raw_book) ==
    LET shelf_names == IF IsNone(raw_book.shelves) THEN <<>> ELSE Get(raw_book.shelves)
    IN  [k \in 1..Len(shelf_names) |->
            Shelf(shelf_names[k], shelf_names[k] \in BuiltinShelves)]

\* _convert_to_models, lines 590-604: the Shelf models of a row
ShelfModels(raw_book) ==
    LET shelf_names == IF IsNone(raw_book.shelves) THEN <<>> ELSE Get(raw_book.shelves)
    IN  IF shelf_names = <<>>
        THEN <<Shelf("unknown", FALSE)>>
        ELSE [k \in 1..Len(shelf_names) |->
                 Shelf(shelf_names[k], shelf_names[k] \in BuiltinShelves)]

RawReadRecords(raw_book) ==
    IF IsNone(raw_book.read_records) THEN <<>> ELSE Get(raw_book.read_records)

\* the keyword arguments of line 630
RelationKwargs(raw_book) ==
    [user_rating |-> None, reading_status |-> raw_book.reading_status,
     shelves |-> ShelfModels(raw_book), read_records |-> RawReadRecords(raw_book)]

\* a row whose model construction raises is skipped (lines 659-667):
\* Shelf (line 600), ReadingStatus (line 610), ReadRecord (line 623),
\* UserBookRelation (line 629)
Converts(raw_book) ==
    /\ \A k \in 1..Len(RawReadRecords(raw_book)) : ValidReadRecord(RawReadRecords(raw_book)[k])
    /\ IsNone(raw_book.shelves) \/ \A k \in 1..Len(Get(raw_book.shelves)) :
                                      ~ShelfRaises(Get(raw_book.shelves)[k])
    /\ IsNone(raw_book.reading_status) \/ Get(raw_book.reading_status) \in ReadingStatus
    /\ ~UserBookRelationRaises(RelationKwargs(raw_book))

ConvertRow(raw_book) ==
    [goodreads_id |-> raw_book.goodreads_id, reading_status |-> raw_book.reading_status,
     shelves |-> UserBookRelation(RelationKwargs(raw_book)).shelves,
     date_added |-> raw_book.date_added,
     publisher |-> raw_book.publisher, read_records |-> RawReadRecords(raw_book)]

RECURSIVE ConvertToModels(_)
ConvertToModels(raw_books) ==
    IF raw_books = <<>> THEN <<>>
    ELSE (IF Converts(Head(raw_books)) THEN <<ConvertRow(Head(raw_books))>> ELSE <<>>)
         \o ConvertToModels(Tail(raw_books))

(***************************************************************************)
(* Spec: the steps of scrape_library.                                      *)
(***************************************************************************)
conf_vars == <<limit, progress_callback, profile>>

Init ==
    /\ rate_limit_delay = 1
    /\ max_retries = DefaultMaxRetries
    /\ FetchIdle
    /\ now = 0
    /\ limit \in {None} \cup {Some(l) : l \in 0..MaxLimit}
    /\ progress_callback = TRUE
    /\ profile \in Profiles
    /\ ScrapeIdle
    /\ CallIdle

RaiseLogged(e) ==
    /\ phase' = "convert"
    /\ error' = "none"

\* an exception leaves scrape_library
Raise(e) ==
    /\ phase' = "raised"
    /\ error' = e

\* lines 102-155: validation, the discovery page, the private-profile check,
\* the username and the shelves to scrape
Discover ==
    /\ phase = "start"
    /\ IF RejectsProfile(profile)
       THEN /\ Raise("InvalidURLError")
            /\ UNCHANGED <<username, shelves_to_scrape, last_fetch>>
       ELSE \E o \in FetchOutcomes[max_retries] :
              IF o # "ok"
              THEN /\ last_fetch' = [kind |-> "discovery", target |-> <<>>, ok |-> FALSE,
                                     html |-> ""]
                   /\ Raise(o)
                   /\ UNCHANGED <<username, shelves_to_scrape>>
              ELSE \E page \in DiscoveryPages :
                     /\ last_fetch' = [kind |-> "discovery", target |-> <<>>, ok |-> TRUE,
                                       html |-> page.html]
                     /\ IF IsPrivateProfile(page.html)
                        THEN /\ Raise("PrivateProfileError")
                             /\ UNCHANGED <<username, shelves_to_scrape>>
                        ELSE /\ username' = IF page.username # "" /\ page.username # "unknown"
                                            THEN page.username
                                            ELSE profile.url_username
                             /\ shelves_to_scrape' = ExcludeAll(page.shelves)
                             /\ phase' = IF ExcludeAll(page.shelves) = <<>>
                                         THEN "convert" ELSE "crawl"
                             /\ UNCHANGED error
    /\ UNCHANGED <<shelf_idx, page_num, shelf_books, all_books, seen_book_ids,
                   has_next_page, i, library, progress, extracted_ids, first_met>>
    /\ UNCHANGED <<fetch_vars, conf_vars, call_vars>>

\* lines 179-250: one iteration of the page loop of the current shelf
CrawlPage ==
    /\ phase = "crawl"
    /\ LET shelf_slug == shelves_to_scrape[shelf_idx]
           reading_status == MapShelfToReadingStatus(shelf_slug)
       IN  \E o \in FetchOutcomes[max_retries] :
             /\ last_fetch' = [kind |-> "listing", target |-> <<shelf_idx, page_num>>,
                               ok |-> o = "ok", html |-> ""]
             /\ IF o # "ok"
                THEN /\ Raise(o)
                     /\ UNCHANGED <<shelf_idx, page_num, shelf_books, all_books,
                                    seen_book_ids, has_next_page, progress,
                                    extracted_ids, first_met>>
                ELSE \E pd \in ListingPages(page_num) :
                       LET books_on_page == [k \in 1..Len(pd.books) |->
                                                TagRow(pd.books[k], reading_status)]
                           f == FilterNew(books_on_page, 1, seen_book_ids, shelf_books,
                                          <<>>, limit)
                           books == all_books \o f.new_books
                           stop == LimitReached(limit, f.shelf_books) \/ ~pd.has_next_page
                       IN  /\ has_next_page' = pd.has_next_page
                           /\ extracted_ids' = extracted_ids \cup Ids(books_on_page)
                           /\ all_books' = books
                           /\ seen_book_ids' = f.seen_book_ids
                           /\ progress' = Notify(progress, Len(books), Len(books), "page")
                           /\ first_met' = [g \in 1..MaxId |->
                                  IF IsNone(first_met[g]) /\ g \in Ids(books_on_page)
                                  THEN Some(FirstWithId(books_on_page, g))
                                  ELSE first_met[g]]
                           /\ CASE ~stop ->
                                     /\ page_num' = page_num + 1
                                     /\ shelf_books' = f.shelf_books
                                     /\ UNCHANGED <<shelf_idx, phase>>
                                [] stop /\ shelf_idx < Len(shelves_to_scrape) ->
                                     /\ shelf_idx' = shelf_idx + 1
                                     /\ page_num' = 1
                                     /\ shelf_books' = <<>>
                                     /\ UNCHANGED phase
                                [] OTHER ->
                                     /\ phase' = IF books = <<>> THEN "convert"
                                                 ELSE "enrich_status"
                                     /\ shelf_books' = f.shelf_books
                                     /\ UNCHANGED <<shelf_idx, page_num>>
                           /\ UNCHANGED error
    /\ UNCHANGED <<username, shelves_to_scrape, i, library>>
    /\ UNCHANGED <<fetch_vars, conf_vars, call_vars>>

\* lines 270-324: the status-page step of item i; whatever the fetch or the
\* parse raises is caught at line 318
EnrichStatus ==
    /\ phase = "enrich_status"
    /\ LET book_data == all_books[i]
       IN  IF ~book_data.review_url
           THEN UNCHANGED <<all_books, last_fetch>>
           ELSE \E o \in FetchOutcomes[max_retries] :
                  /\ last_fetch' = [kind |-> "status", target |-> <<book_data.goodreads_id>>,
                                    ok |-> o = "ok", html |-> ""]
                  /\ IF o # "ok"
                     THEN all_books' = [all_books EXCEPT ![i] = KeepOnError(book_data)]
                     ELSE \E sp \in StatusPages :
                            all_books' = [all_books EXCEPT
                                             ![i] = ApplyStatusPage(book_data, sp)]
    /\ phase' = "enrich_detail"
    /\ UNCHANGED <<error, username, shelves_to_scrape, shelf_idx, page_num, shelf_books,
                   seen_book_ids, has_next_page, i, library, progress, extracted_ids,
                   first_met>>
    /\ UNCHANGED <<fetch_vars, conf_vars, call_vars>>

\* lines 326-367: the detail-page step of item i (every kept row has a
\* goodreads_url, set together with its goodreads_id), then the progress
\* callback and the next item
EnrichDetail ==
    /\ phase = "enrich_detail"
    /\ LET book_data == all_books[i]
       IN  \E o \in FetchOutcomes[max_retries] :
             /\ last_fetch' = [kind |-> "detail", target |-> <<book_data.goodreads_id>>,
                               ok |-> o = "ok", html |-> ""]
             /\ IF o # "ok"
                THEN all_books' = [all_books EXCEPT ![i] = KeepOnError(book_data)]
                ELSE \E dp \in DetailPages :
                       all_books' = [all_books EXCEPT ![i] = ApplyDetailPage(book_data, dp)]
    /\ progress' = Notify(progress, i, Len(all_books), "item")
    /\ IF i < Len(all_books)
       THEN /\ i' = i + 1
            /\ phase' = "enrich_status"
       ELSE /\ phase' = "convert"
            /\ UNCHANGED i
    /\ UNCHANGED <<error, username, shelves_to_scrape, shelf_idx, page_num, shelf_books,
                   seen_book_ids, has_next_page, library, extracted_ids, first_met>>
    /\ UNCHANGED <<fetch_vars, conf_vars, call_vars>>

\* lines 369-418: conversion, the optional shuffle (sort_by is only read
\* here), the Library aggregate; Library rejects an empty username
Assemble ==
    /\ phase = "convert"
    /\ \E user_books \in {ConvertToModels(all_books)} :
           IF username = ""
           THEN /\ Raise("ValidationError")
                /\ UNCHANGED library
           ELSE /\ \E sort_by_random \in BOOLEAN :
                    \E order \in IF sort_by_random
                                 THEN Permutations(1..Len(user_books))
                                 ELSE {[k \in 1..Len(user_books) |-> k]} :
                      library' = Some([username |-> username,
                                       user_books |-> [k \in 1..Len(user_books) |->
                                                          user_books[order[k]]]])
                /\ phase' = "returned"
                /\ UNCHANGED error
    /\ UNCHANGED <<username, shelves_to_scrape, shelf_idx, page_num, shelf_books,
                   all_books, seen_book_ids, has_next_page, i, last_fetch, progress,
                   extracted_ids, first_met>>
    /\ UNCHANGED <<fetch_vars, conf_vars, call_vars>>

Next ==
    \/ Discover
    \/ CrawlPage
    \/ EnrichStatus
    \/ EnrichDetail
    \/ Assemble

Spec == Init /\ [][Next]_vars

\* scrape_library runs on: every fetch and every parse it calls returns
FairSpec == Spec /\ WF_vars(Next)

Transient == {"500", "ConnectError", "TimeoutException"}

(***************************************************************************)
(* C1: the time between the dispatch of any two consecutive requests of    *)
(* one scraper (whatever page they fetch, retries included) is at least    *)
(* rate_limit_delay, and the dispatch time of the latest request is what   *)
(* the single last_request_time holds.                                     *)
(***************************************************************************)
RateLimitSpacing ==
    /\ ~IsNone(dispatch) => Get(dispatch) = last_request_time
    /\ ~IsNone(prev_dispatch) => Get(dispatch) - Get(prev_dispatch) >= rate_limit_delay

\* a retry of a detail-page fetch dispatched exactly rate_limit_delay after
\* the request before it
RateLimitSpacingWitness ==
    /\ ~IsNone(prev_dispatch)
    /\ Get(dispatch) - Get(prev_dispatch) = rate_limit_delay
    /\ fetch_kind = "detail"
    /\ attempt = 1
    /\ fpc = "await"

(***************************************************************************)
(* C2: transient failures (connection error, timeout, 5xx) are retried, at *)
(* most max_retries times; retry number k comes after a backoff sleep of   *)
(* 2^(k-1) seconds (2^attempt of the attempt that failed); a body is only  *)
(* returned from a 200 response, and a fetch whose last attempt failed     *)
(* transiently has raised NetworkError.                                    *)
(***************************************************************************)
RetryBackoff ==
    /\ attempt <= max_retries
    /\ Len(backoffs) = attempt
    /\ \A k \in 1..Len(backoffs) : backoffs[k] = 2 ^ (k - 1)
    /\ (fpc = "attempt" /\ attempt > 0) =>
           /\ last_response \in Transient
           /\ now >= Get(dispatch) + 2 ^ (attempt - 1)
    /\ fetch_result = "ok" => last_response = "200"
    /\ (fpc \in {"idle", "aborted"} /\ last_response \in Transient) =>
           /\ fetch_result = "NetworkError"
           /\ requests = max_retries

\* three attempts failed, two backoff sleeps (1 s, 2 s), NetworkError raised
RetryBackoffWitness ==
    /\ max_retries = 3
    /\ requests = 3
    /\ backoffs = <<1, 2>>
    /\ last_response = "500"
    /\ fetch_result = "NetworkError"

(***************************************************************************)
(* C3: a 404, a 429 and any other 4xx response end the fetch with the      *)
(* request that received it: no backoff sleep, no further attempt, and the *)
(* error is InvalidURLError ("not found"), RateLimitError, NetworkError     *)
(* respectively; an attempt after the first only ever follows a connection *)
(* error, a timeout or a 5xx.                                              *)
(***************************************************************************)
StatusClassification ==
    /\ (fpc # "await" /\ last_response \in {"404", "429", "400"}) =>
           /\ fpc \in {"idle", "aborted"}
           /\ fetch_result = (CASE last_response = "404" -> "InvalidURLError"
                                [] last_response = "429" -> "RateLimitError"
                                [] OTHER -> "NetworkError")
           /\ requests = attempt + 1
           /\ Len(backoffs) = attempt
    /\ (fpc \in {"attempt", "await"} /\ attempt > 0) => last_response \in Transient

\* a 429 on the first attempt of a listing fetch: one request, no sleep
StatusClassificationWitness ==
    /\ last_response = "429"
    /\ fetch_result = "RateLimitError"
    /\ fetch_kind = "listing"
    /\ requests = 1
    /\ backoffs = <<>>
    /\ fpc = "aborted"

(***************************************************************************)
(* C4 (as amended): a fetch of the discovery page or of a listing page     *)
(* that ends in a terminal error aborts the run: scrape_library raises     *)
(* that error, nothing more is fetched and no Library is returned.  A      *)
(* status-page or detail-page fetch that ends in a terminal error is       *)
(* caught: none of the fetch errors leaves scrape_library.                 *)
(***************************************************************************)
CrawlFetchErrorAborts ==
    /\ (~last_fetch.ok /\ last_fetch.kind \in {"discovery", "listing"}) =>
           /\ phase = "raised"
           /\ error \in TerminalErrors
           /\ library = None
    /\ (~last_fetch.ok /\ last_fetch.kind \in {"status", "detail"}) =>
           error \notin TerminalErrors
    /\ phase = "raised" => library = None

\* the first page of the second shelf fails after the first shelf gave an item
CrawlFetchErrorAbortsWitness ==
    /\ last_fetch = [kind |-> "listing", target |-> <<2, 1>>, ok |-> FALSE,
                    html |-> ""]
    /\ phase = "raised"
    /\ error = "RateLimitError"
    /\ Len(all_books) = 1
    /\ library = None

\* C4 as stated: a terminal error of any fetch, enrichment included, aborts
\* the run
AnyFetchErrorAborts ==
    ~last_fetch.ok => (phase = "raised" /\ library = None)

FirstAcceptedWins ==
    /\ [](/\ Cardinality(Ids(all_books)) = Len(all_books)
          /\ seen_book_ids = Ids(all_books)
          /\ (limit = None /\ (phase = "crawl" \/ (phase = "enrich_status" /\ i = 1))) =>
                 \A k \in 1..Len(all_books) :
                     all_books[k].reading_status =
                         Get(first_met[all_books[k].goodreads_id]).reading_status)
    /\ [][phase = "crawl" =>
              /\ Len(all_books') >= Len(all_books)
              /\ \A k \in 1..Len(all_books) : all_books'[k] = all_books[k]
              /\ \A k \in (Len(all_books) + 1)..Len(all_books') :
                     /\ all_books'[k].goodreads_id \notin seen_book_ids
                     /\ all_books'[k].reading_status =
                            MapShelfToReadingStatus(shelves_to_scrape[shelf_idx])
      ]_vars

\* item 2 stood on the page of shelf "read" behind the row that reached the
\* limit, and is kept once, as the row of the later shelf "abandoned"
FirstAcceptedWinsWitness ==
    /\ limit = Some(1)
    /\ shelves_to_scrape = <<"read", "abandoned">>
    /\ Len(all_books) = 2
    /\ all_books[1].reading_status = Some("read")
    /\ all_books[2].goodreads_id = 2
    /\ all_books[2].reading_status = None
    /\ Get(first_met[2]).reading_status = Some("read")

\* C6 as stated: the kept row carries the reading status of the first shelf
\* on which the item was encountered (shown for a limit other than 0)
FirstEncounteredWins ==
    (limit # Some(0) /\ (phase = "crawl" \/ (phase = "enrich_status" /\ i = 1))) =>
        \A k \in 1..Len(all_books) :
            all_books[k].reading_status =
                Get(first_met[all_books[k].goodreads_id]).reading_status

(***************************************************************************)
(* C7 as stated: enrichment is additive-only, a step of it never changes   *)
(* a field of an item that held a value before the step.                   *)
(***************************************************************************)
AdditiveOnly ==
    [][(phase \in {"enrich_status", "enrich_detail"}) =>
           \A k \in 1..Len(all_books) :
               /\ ~IsNone(all_books[k].reading_status) =>
                      all_books'[k].reading_status = all_books[k].reading_status
               /\ ~IsNone(all_books[k].shelves) =>
                      all_books'[k].shelves = all_books[k].shelves
               /\ ~IsNone(all_books[k].date_added) =>
                      all_books'[k].date_added = all_books[k].date_added
               /\ ~IsNone(all_books[k].publisher) =>
                      all_books'[k].publisher = all_books[k].publisher
               /\ ~IsNone(all_books[k].read_records) =>
                      (all_books'[k].read_records = all_books[k].read_records)
      ]_vars

(***************************************************************************)
(* C8: the page loop of a shelf requests page page_num of that shelf,      *)
(* starting at 1 and going on with page_num + 1 only after a page that     *)
(* reported a next page and left the shelf under its limit; any other      *)
(* page ends the shelf, whose later pages are never requested; and         *)
(* scrape_library eventually ends.                                         *)
(***************************************************************************)
PaginationTerminates ==
    /\ [](phase = "start" => page_num = 1)
    /\ [][phase = "crawl" =>
              /\ last_fetch'.kind = "listing"
              /\ last_fetch'.target = <<shelf_idx, page_num>>
              /\ (phase' = "crawl" /\ shelf_idx' = shelf_idx) =>
                     /\ page_num' = page_num + 1
                     /\ has_next_page'
                     /\ ~(~IsNone(limit) /\ Len(shelf_books') >= Get(limit))
              /\ (phase' = "crawl" /\ shelf_idx' # shelf_idx) =>
                     /\ shelf_idx' = shelf_idx + 1
                     /\ page_num' = 1
              /\ phase' # "crawl" => (page_num' = page_num /\ shelf_idx' = shelf_idx)
      ]_vars
    /\ <>(phase \in {"returned", "raised"})

\* two shelves crawled with no limit, the second one over two pages, and a
\* Library returned
PaginationTerminatesWitness ==
    /\ phase = "returned"
    /\ limit = None
    /\ shelf_idx = 2
    /\ page_num = 2
    /\ ~has_next_page
    /\ ~IsNone(library)

PerShelfLimit ==
    ~IsNone(limit) =>
        /\ Len(shelf_books) <= Get(limit)
        /\ Len(all_books) <= Get(limit) * Len(shelves_to_scrape)
        /\ ~IsNone(library) =>
               Len(Get(library).user_books) <= Get(limit) * Len(shelves_to_scrape)

(***************************************************************************)
(* C11 as stated: every relation of a returned Library whose reading       *)
(* status is "read" has at least one read record.                          *)
(***************************************************************************)
ReadHasRecord ==
    ~IsNone(library) =>
        \A k \in 1..Len(Get(library).user_books) :
            Get(library).user_books[k].reading_status = Some("read") =>
                Len(Get(library).user_books[k].read_records) >= 1

(***************************************************************************)
(* C12 as stated: a discovery page fetched with success whose body holds   *)
(* one of the private-profile markers makes scrape_library raise           *)
(* PrivateProfileError; no listing, status or detail page is requested     *)
(* and no Library is returned.                                             *)
(***************************************************************************)
PrivateMarkerRaises ==
    (last_fetch.kind = "discovery" /\ last_fetch.ok /\ last_fetch.html # "") =>
        /\ phase = "raised"
        /\ error = "PrivateProfileError"
        /\ library = None

(***************************************************************************)
(* C13: on a profile URL that the validator rejects scrape_library raises  *)
(* InvalidURLError as its first step: no page is fetched, the progress     *)
(* callback is never invoked and no Library is returned.                   *)
(***************************************************************************)
InvalidUrlRaises ==
    ~profile.is_valid =>
        /\ phase = "start" \/ (phase = "raised" /\ error = "InvalidURLError")
        /\ last_fetch.kind = "none"
        /\ progress = <<>>
        /\ library = None

\* the run on a rejected URL has ended, with a progress callback configured
InvalidUrlRaisesWitness ==
    /\ ~profile.is_valid
    /\ progress_callback
    /\ phase = "raised"
    /\ error = "InvalidURLError"

(***************************************************************************)
(* C15: with a progress callback configured, a page step that fetched and  *)
(* processed a listing page notifies exactly once, with current and total  *)
(* the number of items accumulated; the step that ends an item's           *)
(* enrichment notifies exactly once, with the item's position and the      *)
(* number of items, whether its fetches succeeded or not; nothing else     *)
(* notifies.  So the notifications are those of the pages followed by      *)
(* those of the items 1, 2, ..., N.                                        *)
(***************************************************************************)
ProgressNotifications ==
    /\ [](progress_callback =>
            \A k \in 1..Len(progress) :
                IF k <= Len(progress) - (IF phase \in {"enrich_status", "enrich_detail"}
                                         THEN i - 1
                                         ELSE IF phase \in {"convert", "returned"}
                                              THEN Len(all_books) ELSE 0)
                THEN progress[k].step = "page" /\ progress[k].current = progress[k].total
                ELSE /\ progress[k].step = "item"
                     /\ progress[k].total = Len(all_books)
                     /\ progress[k].current = k - (Len(progress) - progress[Len(progress)].current))
    /\ [][progress_callback =>
            /\ (phase = "crawl" /\ last_fetch'.ok) =>
                   progress' = Append(progress, [current |-> Len(all_books'),
                                                 total |-> Len(all_books'),
                                                 step |-> "page"])
            /\ phase = "enrich_detail" =>
                   progress' = Append(progress, [current |-> i, total |-> Len(all_books),
                                                 step |-> "item"])
            /\ ~((phase = "crawl" /\ last_fetch'.ok) \/ phase = "enrich_detail") =>
                   progress' = progress
      ]_vars

\* two pages and two items notified; the second item's detail-page fetch failed
ProgressNotificationsWitness ==
    /\ progress_callback
    /\ phase = "convert"
    /\ Len(progress) = 4
    /\ progress[1].step = "page"
    /\ progress[2] = [current |-> 2, total |-> 2, step |-> "page"]
    /\ progress[3] = [current |-> 1, total |-> 2, step |-> "item"]
    /\ progress[4] = [current |-> 2, total |-> 2, step |-> "item"]
    /\ last_fetch.kind = "detail"
    /\ ~last_fetch.ok

(***************************************************************************)
(* SpecLib: one call of a model constructor, a validator or the exporter:   *)
(* op is the function called, arg its argument, ret what it returned or    *)
(* that it raised.                                                         *)
(***************************************************************************)
Ok(v) == [ok |-> TRUE, value |-> v]

Raised(e) == [ok |-> FALSE, error |-> e]

InitLib ==
    /\ rate_limit_delay = 1
    /\ max_retries = DefaultMaxRetries
    /\ FetchIdle
    /\ now = 0
    /\ limit = None
    /\ progress_callback = FALSE
    /\ profile = [is_valid |-> TRUE, user_id |-> Some("172435467"),
                  url_username |-> "unknown"]
    /\ ScrapeIdle
    /\ CallIdle

\* dates: absent, or day 1 or 2
Dates == {None} \cup {Some(d) : d \in 1..MaxDay}

\* ReadRecord(date_started=..., date_finished=...)
ConstructReadRecord ==
    /\ op = "none"
    /\ \E ds \in Dates, df \in Dates :
        LET r == [date_started |-> ds, date_finished |-> df]
        IN  /\ op' = "ReadRecord"
            /\ arg' = r
            /\ ret' = IF ValidReadRecord(r) THEN Ok(r) ELSE Raised("ValidationError")
            /\ UNCHANGED <<fetch_vars, scrape_vars>>

\* shelf names a relation is constructed from: short lists, and lists at
\* and over the maximal length
ShelfNames == {"read", "READ", "favorites", " Read "}

ShelfNameLists ==
    SeqsUpTo(ShelfNames, MaxNames) \cup
    {[k \in 1..n |-> "read"] : n \in {ShelvesMaxLength, ShelvesMaxLength + 1}}

\* UserBookRelation(book=..., shelves=[Shelf(name=n), ...], user_rating=...,
\* date_started=..., date_finished=...)
ConstructUserBookRelation ==
    /\ op = "none"
    /\ \E names \in ShelfNameLists, ur \in {None, Some(5), Some(6)},
       ds \in Dates, df \in Dates :
        LET kwargs == [shelf_names |-> names,
                       shelves |-> [k \in 1..Len(names) |-> Shelf(names[k], FALSE)],
                       user_rating |-> ur, reading_status |-> None,
                       read_records |-> <<>>,
                       date_started |-> ds, date_finished |-> df]
        IN  /\ op' = "UserBookRelation"
            /\ arg' = kwargs
            /\ ret' = IF UserBookRelationRaises(kwargs)
                      THEN Raised("ValidationError")
                      ELSE Ok(UserBookRelation(kwargs))
            /\ UNCHANGED <<fetch_vars, scrape_vars>>

\* the dicts _convert_to_models is given: shelves absent, empty, with two
\* names equal ignoring case, with an empty name; a reading status that is
\* no member of the enum; a read record with its dates reversed
RawBooks ==
    {[goodreads_id |-> g, reading_status |-> rs, shelves |-> sh, date_added |-> None,
      review_url |-> FALSE, publisher |-> None, read_records |-> rr] :
        g \in 1..MaxId,
        rs \in {None, Some("read"), Some("bogus")},
        sh \in {None, Some(<<>>), Some(<<"read", "READ">>), Some(<<"">>)},
        rr \in {None,
                Some(<<[date_started |-> Some(1), date_finished |-> Some(2)]>>),
                Some(<<[date_started |-> Some(2), date_finished |-> Some(1)]>>)}}

CallConvertToModels ==
    /\ op = "none"
    /\ \E raw_books \in SeqsUpTo(RawBooks, MaxRows) :
        /\ op' = "_convert_to_models"
        /\ arg' = raw_books
        /\ ret' = ConvertToModels(raw_books)
        /\ UNCHANGED <<fetch_vars, scrape_vars>>

(***************************************************************************)
(* Genre normalization.  A genre is a sequence of characters.              *)
(***************************************************************************)
Take(seq, n) == SubSeq(seq, 1, IF Len(seq) < n THEN Len(seq) ELSE n)

\* str.strip
RECURSIVE StripChars(_)
StripChars(text) ==
    IF text = <<>> THEN <<>>
    ELSE IF Head(text) = " " THEN StripChars(Tail(text))
    ELSE IF text[Len(text)] = " " THEN StripChars(SubSeq(text, 1, Len(text) - 1))
    ELSE text

\* str.lower
LowerChars(text) ==
    [k \in 1..Len(text) |-> CASE text[k] = "A" -> "a"
                              [] text[k] = "B" -> "b"
                              [] OTHER -> text[k]]

\* genre.strip().lower()[:50]
CleanGenre(genre) == Take(LowerChars(StripChars(genre)), GenreMaxChars)

\* the loop of normalize_genres and of Book.normalize_genres from entry k on
RECURSIVE NormalizeLoop(_, _, _, _)
NormalizeLoop(genres, k, seen, normalized) ==
    IF k > Len(genres) THEN normalized
    ELSE LET genre_clean == CleanGenre(genres[k])
         IN  IF genre_clean # <<>> /\ genre_clean \notin seen
             THEN NormalizeLoop(genres, k + 1, seen \cup {genre_clean},
                                Append(normalized, genre_clean))
             ELSE NormalizeLoop(genres, k + 1, seen, normalized)

\* validators.normalize_genres: the first GenresMaxEntries entries are read
normalize_genres(genres) == NormalizeLoop(Take(genres, GenresMaxEntries), 1, {}, <<>>)

\* the genres field of Book: the entries are stripped (str_strip_whitespace),
\* a list over the maximal length is a validation error, then the validator
\* Book.normalize_genres runs
BookGenres(v) ==
    IF Len(v) > BookGenresMaxLength
    THEN Raised("ValidationError")
    ELSE Ok(NormalizeLoop([k \in 1..Len(v) |-> StripChars(v[k])], 1, {}, <<>>))

\* genre texts around the maximal length: n letters, then a short ending
Pad(n) == [k \in 1..n |-> "a"]

GenreTexts ==
    {Pad(n) \o e : n \in {0, GenreMaxChars - 2, GenreMaxChars - 1, GenreMaxChars},
                   e \in {<<>>, <<"B">>, <<" ">>, <<" ", "b">>, <<"a", " ", "b">>}}

\* n genres no two of which are equal
DistinctGenres(n) ==
    [k \in 1..n |-> IF k <= GenreMaxChars THEN Pad(k) ELSE <<"b">> \o Pad(k - GenreMaxChars)]

GenreLists ==
    SeqsUpTo(GenreTexts, MaxGenres) \cup
    {DistinctGenres(n) : n \in {GenresMaxEntries + 1, BookGenresMaxLength + 1}}

CallNormalizeGenres ==
    /\ op = "none"
    /\ \E genres \in GenreLists :
        /\ op' = "normalize_genres"
        /\ arg' = genres
        /\ ret' = Ok(normalize_genres(genres))
        /\ UNCHANGED <<fetch_vars, scrape_vars>>

\* Book(..., genres=genres).genres
ConstructBookGenres ==
    /\ op = "none"
    /\ \E genres \in GenreLists :
        /\ op' = "Book.genres"
        /\ arg' = genres
        /\ ret' = BookGenres(genres)
        /\ UNCHANGED <<fetch_vars, scrape_vars>>

(***************************************************************************)
(* library_to_csv_rows.                                                    *)
(***************************************************************************)
\* the fields of the Book model
BookFields ==
    {"goodreads_id", "title", "author", "additional_authors", "isbn", "isbn13",
     "publication_date", "publisher", "page_count", "language", "setting",
     "literary_awards", "genres", "average_rating", "ratings_count", "cover_image_url",
     "goodreads_url"}

\* the attributes of user_book.book a row reads (lines 90-101)
CsvBookAttributes ==
    {"goodreads_id", "title", "author", "additional_authors", "isbn", "isbn13",
     "publication_year", "publisher", "page_count", "language", "genres",
     "average_rating", "ratings_count"}

\* building the row of an item raises AttributeError: an attribute Book does
\* not have, or .value of a reading status that is None (line 105)
RowRaises(user_book) ==
    \/ CsvBookAttributes \ BookFields # {}
    \/ IsNone(user_book.reading_status)

\* lines 85-124: the row of one item for one of its shelves
CsvRow(lib, user_book, shelf) ==
    [user_id |-> lib.user_id, username |-> lib.username,
     goodreads_book_id |-> user_book.goodreads_id,
     reading_status |-> Get(user_book.reading_status),
     shelf_name |-> shelf.name,
     is_builtin_shelf |-> IF shelf.is_builtin THEN "true" ELSE "false"]

RECURSIVE CsvRows(_, _)
CsvRows(lib, user_books) ==
    IF user_books = <<>> THEN <<>>
    ELSE [k \in 1..Len(Head(user_books).shelves) |->
             CsvRow(lib, Head(user_books), Head(user_books).shelves[k])]
         \o CsvRows(lib, Tail(user_books))

library_to_csv_rows(lib) ==
    IF \E k \in 1..Len(lib.user_books) :
           Len(lib.user_books[k].shelves) >= 1 /\ RowRaises(lib.user_books[k])
    THEN Raised("AttributeError")
    ELSE Ok(CsvRows(lib, lib.user_books))

\* relations on one shelf and on two
CsvUserBooks ==
    {[goodreads_id |-> g, reading_status |-> rs, shelves |-> sh] :
        g \in 1..MaxId,
        rs \in {None, Some("read")},
        sh \in {<<Shelf("read", TRUE)>>, <<Shelf("read", TRUE), Shelf("favorites", FALSE)>>}}

Libraries ==
    {[user_id |-> "172435467", username |-> "tim-brown", user_books |-> ub] :
        ub \in SeqsUpTo(CsvUserBooks, MaxRows)}

CallLibraryToCsvRows ==
    /\ op = "none"
    /\ \E lib \in Libraries :
        /\ op' = "library_to_csv_rows"
        /\ arg' = lib
        /\ ret' = library_to_csv_rows(lib)
        /\ UNCHANGED <<fetch_vars, scrape_vars>>

\* Library.get_books_by_status: ub.reading_status.value of every relation is
\* read (line 86), which raises AttributeError on a reading status None
get_books_by_status(lib, status) ==
    IF \E k \in 1..Len(lib.user_books) : IsNone(lib.user_books[k].reading_status)
    THEN Raised("AttributeError")
    ELSE Ok(SelectSeq(lib.user_books, LAMBDA ub : Get(ub.reading_status) = status))

CallGetBooksByStatus ==
    /\ op = "none"
    /\ \E lib \in Libraries, status \in {"read", "to-read"} :
        /\ op' = "get_books_by_status"
        /\ arg' = [library |-> lib, status |-> status]
        /\ ret' = get_books_by_status(lib, status)
        /\ UNCHANGED <<fetch_vars, scrape_vars>>

(***************************************************************************)
(* validate_goodreads_profile_url.  A URL is the sequence of its parts:    *)
(* <<"https://", "www.", "goodreads.com", "/user/show/", "123",            *)
(*   "-tim-brown", "?", "page=2">>.                                        *)
(***************************************************************************)
\* str.strip of a URL
RECURSIVE StripUrl(_)
StripUrl(url) ==
    IF url = <<>> THEN <<>>
    ELSE IF Head(url) = " " THEN StripUrl(Tail(url))
    ELSE IF url[Len(url)] = " " THEN StripUrl(SubSeq(url, 1, Len(url) - 1))
    ELSE url

FoldNot(text) == text

\* re.IGNORECASE
Fold(text) == Lower(text)

\* \d+
DigitParts == {"123", "7"}

\* -[\w-]+
SlugParts == {"-tim-brown"}

\* . (any character but a newline)
AnyParts ==
    {"?", "page=2", "#", "top", "-", " ", "12a", "x=-", "next=", "/user/show/", "7", "123"}

\* what GOODREADS_PROFILE_PATTERN.match(url) yields: no match, or group 1
\* and where the path ends
PatternMatch(url) ==
    LET at(k) == IF k <= Len(url) THEN url[k] ELSE "$"
        w == IF Fold(at(2)) = "www." THEN 3 ELSE 2
        s == IF at(w + 3) \in SlugParts THEN w + 4 ELSE w + 3
    IN  IF /\ Fold(at(1)) \in {"http://", "https://"}
           /\ Fold(at(w)) = "goodreads.com"
           /\ Fold(at(w + 1)) = "/user/show/"
           /\ at(w + 2) \in DigitParts
           /\ \/ s = Len(url) + 1
              \/ at(s) = "?" /\ \A k \in (s + 1)..Len(url) : url[k] \in AnyParts
        THEN Some([user_id |-> at(w + 2), path |-> SubSeq(url, w + 1, s - 1),
                   rest |-> SubSeq(url, s, Len(url))])
        ELSE None

\* urlparse(url).query: what stands between the ? and the first #
UrlQuery(rest) ==
    LET hashes == {k \in 1..Len(rest) : rest[k] = "#"}
        end == IF hashes = {} THEN Len(rest)
               ELSE (CHOOSE k \in hashes : \A j \in hashes : k <= j) - 1
    IN  SubSeq(rest, 2, end)

validate_goodreads_profile_url(url) ==
    IF url = <<>>
    THEN [is_valid |-> FALSE, normalized_url |-> <<>>, user_id |-> None]
    ELSE LET match == PatternMatch(StripUrl(url))
         IN  IF IsNone(match)
             THEN [is_valid |-> FALSE, normalized_url |-> <<>>, user_id |-> None]
             ELSE [is_valid |-> TRUE,
                   normalized_url |->
                       <<"https://", "www.", "goodreads.com">> \o Get(match).path \o
                       (IF UrlQuery(Get(match).rest) # <<>>
                        THEN <<"?">> \o UrlQuery(Get(match).rest) ELSE <<>>),
                   user_id |-> Some(Get(match).user_id)]

\* the strings the validator is given, part by part
Opt(parts) == {<<>>} \cup {<<x>> : x \in parts}

Urls ==
    {<<>>} \cup
    {l \o sc \o w \o h \o p \o n \o sl \o q \o r :
        l \in Opt({" "}),
        sc \in Opt({"https://", "http://", "HTTPS://", "ftp://"}),
        w \in Opt({"www."}),
        h \in {<<"goodreads.com">>, <<"example.com">>},
        p \in Opt({"/user/show/", "/User/Show/", "/book/show/"}),
        n \in Opt({"123", "7", "12a"}),
        sl \in Opt({"-tim-brown", "-"}),
        q \in {<<>>, <<"?">>, <<"?", "page=2">>, <<"?", "page=2", "#", "top">>,
               <<"#", "top">>},
        r \in Opt({" "})}

CallValidateUrl ==
    /\ op = "none"
    /\ \E url \in Urls :
        /\ op' = "validate_goodreads_profile_url"
        /\ arg' = url
        /\ ret' = validate_goodreads_profile_url(url)
        /\ UNCHANGED <<fetch_vars, scrape_vars>>

(***************************************************************************)
(* pagination.py: build_library_url.  A text is the sequence of its parts; *)
(* the empty text is <<>>.                                                 *)
(***************************************************************************)
\* where a part holds a given character: the text before its first
\* occurrence and the text after it
CharCut ==
    [ch \in {"-", "?", "/"} |->
        [part \in STRING |->
            CASE ch = "-" /\ part = "-" -> Some([before |-> <<>>, after |-> <<>>])
              [] ch = "-" /\ part = "-tim-brown" ->
                     Some([before |-> <<>>, after |-> <<"tim-brown">>])
              [] ch = "-" /\ part = "tim-brown" ->
                     Some([before |-> <<"tim">>, after |-> <<"brown">>])
              [] ch = "-" /\ part = "x=-" -> Some([before |-> <<"x=">>, after |-> <<>>])
              [] ch = "?" /\ part = "?" -> Some([before |-> <<>>, after |-> <<>>])
              [] ch = "/" /\ part = "/" -> Some([before |-> <<>>, after |-> <<>>])
              [] ch = "/" /\ part = "/user/show/" ->
                     Some([before |-> <<>>, after |-> <<"user/show/">>])
              [] ch = "/" /\ part = "/User/Show/" ->
                     Some([before |-> <<>>, after |-> <<"User/Show/">>])
              [] ch = "/" /\ part = "https://" ->
                     Some([before |-> <<"https:">>, after |-> <<"/">>])
              [] OTHER -> None]]

\* ch in text
HasChar(text, ch) == \E k \in 1..Len(text) : ~IsNone(CharCut[ch][text[k]])

\* text.split(ch)[0]
RECURSIVE BeforeFirst(_, _)
BeforeFirst(text, ch) ==
    IF text = <<>> THEN <<>>
    ELSE IF IsNone(CharCut[ch][Head(text)])
         THEN <<Head(text)>> \o BeforeFirst(Tail(text), ch)
         ELSE Get(CharCut[ch][Head(text)]).before

\* ch.join(text.split(ch)[1:])
RECURSIVE AfterFirst(_, _)
AfterFirst(text, ch) ==
    IF text = <<>> THEN <<>>
    ELSE IF IsNone(CharCut[ch][Head(text)])
         THEN AfterFirst(Tail(text), ch)
         ELSE Get(CharCut[ch][Head(text)]).after \o Tail(text)

\* text.split(sep)[-1] for a separator that is a part of its own
AfterLast(text, sep) ==
    LET at == {k \in 1..Len(text) : text[k] = sep}
    IN  IF at = {} THEN text
        ELSE SubSeq(text, (CHOOSE k \in at : \A j \in at : j <= k) + 1, Len(text))

\* str(page) for the pages of the model, digit by digit
RECURSIVE Decimal(_)
Decimal(n) ==
    IF n < 10 THEN <<<<"0", "1", "2", "3", "4", "5", "6", "7", "8", "9">>[n + 1]>>
    ELSE Decimal(n \div 10) \o Decimal(n % 10)

PageParamAlways(page) == <<<<"page=">> \o Decimal(page)>>

\* lines 130-131
PageParam(page) == IF page > 1 THEN <<<<"page=">> \o Decimal(page)>> ELSE <<>>

\* lines 132-135
ShelfParam(shelf) ==
    IF shelf # "" /\ shelf # "all" THEN <<<<"shelf=", shelf>>>>
    ELSE IF shelf = "all" THEN <<<<"shelf=", "all">>>>
    ELSE <<>>

\* '&'.join(params)
RECURSIVE JoinParams(_)
JoinParams(params) ==
    IF params = <<>> THEN <<>>
    ELSE IF Len(params) = 1 THEN Head(params)
    ELSE Head(params) \o <<"&">> \o JoinParams(Tail(params))

\* line 122
ListUserId(profile_url) ==
    BeforeFirst(BeforeFirst(AfterLast(profile_url, "/user/show/"), "-"), "?")

build_library_url(profile_url, page, shelf) ==
    IF ~Contains(profile_url, "/user/show/")
    THEN Raised("ValueError")
    ELSE LET base_url == <<"https://", "www.", "goodreads.com", "/review/list/">> \o
                         ListUserId(profile_url)
             params == PageParam(page) \o ShelfParam(shelf)
         IN  IF params # <<>>
             THEN Ok(base_url \o <<"?">> \o JoinParams(params))
             ELSE Ok(base_url)

\* profile URLs: as the validator normalizes them, and others
ProfileUrls ==
    {<<"https://", "www.", "goodreads.com", p, n>> \o sl \o q :
        p \in {"/user/show/", "/User/Show/"},
        n \in {"123", "7"},
        sl \in Opt({"-tim-brown"}),
        q \in {<<>>, <<"?", "page=2">>, <<"?", "x=-">>,
               <<"?", "next=", "/user/show/", "7">>}}

ListShelves == {"all", "read", "to-read", ""}

CallBuildLibraryUrl ==
    /\ op = "none"
    /\ \E profile_url \in ProfileUrls, page \in 0..(MaxPages + 1), shelf \in ListShelves :
        /\ op' = "build_library_url"
        /\ arg' = [profile_url |-> profile_url, page |-> page, shelf |-> shelf]
        /\ ret' = build_library_url(profile_url, page, shelf)
        /\ UNCHANGED <<fetch_vars, scrape_vars>>

(***************************************************************************)
(* The pagination detectors of pagination.py and library_parser.py.  A     *)
(* document is what they look at: whether it has a div with id             *)
(* reviewPagination and the links of that div, each with its string (none  *)
(* when the link has nested content) and its href attribute (none when the *)
(* attribute is missing, "" when it is empty).                             *)
(***************************************************************************)
\* 'next' in s
NextTexts == {"next", "next >"}

\* string=lambda s: s and 'next' in s.lower()
IsNextLink(link) == ~IsNone(link.string) /\ Lower(Get(link.string)) \in NextTexts

\* pagination.find('a', string=...): the first link that matches, if any
FindNextLink(doc) ==
    LET hits == {k \in 1..Len(doc.links) : IsNextLink(doc.links[k])}
    IN  IF ~doc.pagination \/ hits = {} THEN None
        ELSE Some(doc.links[CHOOSE k \in hits : \A j \in hits : k <= j])

\* href.startswith('http')
AbsoluteHrefs == {"https://www.goodreads.com/review/list/12345?page=2"}

\* urljoin(base_url, href) of a base without query
UrlJoin(base_url, href) ==
    IF href = "" THEN base_url ELSE base_url \o <<href>>

\* bool(href): the truth value of a string
Truthy(text) == text # ""

\* pagination.py, lines 25-34; line 34 tests the href against None only
detect_pagination(doc) ==
    LET next_link == FindNextLink(doc)
    IN  IF ~doc.pagination THEN FALSE
        ELSE /\ ~IsNone(next_link)
             /\ ~IsNone(Get(next_link).href)

\* pagination.py, lines 52-71
get_next_page_url(doc, base_url) ==
    LET next_link == FindNextLink(doc)
    IN  IF ~doc.pagination THEN None
        ELSE IF IsNone(next_link) THEN None
        ELSE IF IsNone(Get(next_link).href) \/ ~Truthy(Get(Get(next_link).href)) THEN None
        ELSE IF Get(Get(next_link).href) \in AbsoluteHrefs
             THEN Some(<<Get(Get(next_link).href)>>)
             ELSE Some(UrlJoin(base_url, Get(Get(next_link).href)))

\* library_parser.py, lines 305-312
detect_next_page(doc) ==
    LET next_link == FindNextLink(doc)
    IN  /\ doc.pagination
        /\ ~IsNone(next_link)
        /\ ~IsNone(Get(next_link).href)
        /\ Truthy(Get(Get(next_link).href))

PageLinks ==
    {[string |-> t, href |-> h] :
        t \in {None, Some("Next"), Some("next >"), Some("previous")},
        h \in {None, Some(""), Some("?page=2"),
               Some("https://www.goodreads.com/review/list/12345?page=2")}}

Documents ==
    {[pagination |-> b, links |-> l] : b \in BOOLEAN, l \in SeqsUpTo(PageLinks, MaxLinks)}

CallPaginationDetectors ==
    /\ op = "none"
    /\ \E doc \in Documents :
        /\ op' = "pagination"
        /\ arg' = doc
        /\ ret' = [detect_pagination |-> detect_pagination(doc),
                   get_next_page_url |->
                       get_next_page_url(doc, <<"https://www.goodreads.com/review/list/12345">>),
                   detect_next_page |-> detect_next_page(doc)]
        /\ UNCHANGED <<fetch_vars, scrape_vars>>

(***************************************************************************)
(* book_parser.py: parse_book_page.  A dict is a function of its keys; a   *)
(* value is None or Some of a text that names the strategy it comes from   *)
(* ("0" is the integer zero, "[]" the empty list).  A document is the      *)
(* output of each extractor on it.                                         *)
(***************************************************************************)
EmptyDict == [key \in {} |-> None]

\* d.get(key)
DictGet(d, key) == IF key \in DOMAIN d THEN d[key] ELSE None

\* d.update(e)
DictUpdate(d, e) ==
    [key \in DOMAIN d \cup DOMAIN e |-> IF key \in DOMAIN e THEN e[key] ELSE d[key]]

\* the values that are not None and yet false
FalsyValues == {"0", "[]"}

IsTruthy(value) == ~IsNone(value) /\ Get(value) \notin FalsyValues

\* for key, value in data.items():
\*     if value and not book_data.get(key): book_data[key] = value
FillUnset(book_data, data) ==
    LET filled == {key \in DOMAIN data :
                      IsTruthy(data[key]) /\ ~IsTruthy(DictGet(book_data, key))}
    IN  [key \in DOMAIN book_data \cup filled |->
            IF key \in filled THEN data[key] ELSE book_data[key]]

\* book_data after each strategy, the last one being what is returned
parse_book_page(doc) ==
    LET \* lines 49-51
        AfterNextData ==
            IF DOMAIN doc.next_data # {} THEN DictUpdate(EmptyDict, doc.next_data)
            ELSE EmptyDict
        \* lines 54-59
        AfterSchema ==
            IF DOMAIN doc.schema_data # {}
            THEN FillUnset(AfterNextData, doc.schema_data)
            ELSE AfterNextData
        \* lines 62-64
        AfterIsbn ==
            IF ~IsTruthy(DictGet(AfterSchema, "isbn")) /\
               ~IsTruthy(DictGet(AfterSchema, "isbn13"))
            THEN DictUpdate(AfterSchema, doc.isbn_data)
            ELSE AfterSchema
        \* lines 67-71
        AfterPublication == FillUnset(AfterIsbn, doc.pub_data)
        \* lines 74-76
        AfterGenres ==
            IF ~IsTruthy(DictGet(AfterPublication, "genres"))
            THEN DictUpdate(AfterPublication, [genres |-> doc.genres])
            ELSE AfterPublication
        \* lines 79-81
        AfterRating ==
            IF ~IsTruthy(DictGet(AfterGenres, "average_rating"))
            THEN DictUpdate(AfterGenres, doc.rating_data)
            ELSE AfterGenres
        \* lines 84-86
        AfterCover ==
            IF ~IsTruthy(DictGet(AfterRating, "cover_image_url"))
            THEN DictUpdate(AfterRating, [cover_image_url |-> doc.cover_url])
            ELSE AfterRating
    IN  <<AfterNextData, AfterSchema, AfterIsbn, AfterPublication, AfterGenres,
          AfterRating, AfterCover>>

\* the dicts with some of the keys of vals, each key with one of its values
PartialDicts(vals) ==
    UNION {{d \in [keys -> UNION {vals[key] : key \in keys}] :
               \A key \in keys : d[key] \in vals[key]} : keys \in SUBSET DOMAIN vals}

\* the documents: the output of the extractors on pages with data for the ISBN
\* fields, the rating fields, the publication fields, the genres and the cover
BookDocs ==
    LET \* a document without any of the data
        EmptyDoc ==
            [next_data |-> EmptyDict, schema_data |-> EmptyDict,
             isbn_data |-> [isbn |-> None, isbn13 |-> None],
             pub_data |-> [publication_year |-> None, publisher |-> None, page_count |-> None,
                           language |-> None],
             genres |-> Some("[]"),
             rating_data |-> [average_rating |-> None, ratings_count |-> None],
             cover_url |-> None]
        \* documents with data for the ISBN fields: from the blob (a key only for a
        \* valid number), from the schema (one number), from the text (one number)
        IsbnDocs ==
            {[EmptyDoc EXCEPT !.next_data = n, !.schema_data = sc, !.isbn_data = t] :
                n \in PartialDicts([isbn |-> {Some("next-10")}, isbn13 |-> {Some("next-13")}]),
                sc \in {d \in PartialDicts([isbn |-> {Some("schema-10")},
                                            isbn13 |-> {Some("schema-13")}]) :
                           DOMAIN d # {"isbn", "isbn13"}},
                t \in {[isbn |-> None, isbn13 |-> None], [isbn |-> Some("text-10"), isbn13 |-> None],
                       [isbn |-> None, isbn13 |-> Some("text-13")]}}
        \* documents with data for the rating fields: from the schema and from the
        \* text
        RatingDocs ==
            {[EmptyDoc EXCEPT !.schema_data = sc, !.rating_data = t] :
                sc \in PartialDicts([average_rating |-> {Some("schema-4.2")},
                                     ratings_count |-> {Some("schema-100"), Some("0")}]),
                t \in [average_rating : {None, Some("text-4.1")},
                       ratings_count : {None, Some("text-99")}]}
        \* documents with data for the publication fields
        PublicationDocs ==
            {[EmptyDoc EXCEPT !.next_data = n, !.schema_data = sc, !.pub_data = t] :
                n \in PartialDicts([publisher |-> {None, Some("next-publisher")},
                                    page_count |-> {Some("0"), Some("next-300")}]) \cup
                      PartialDicts([language |-> {Some("next-English")},
                                    publication_year |-> {None, Some("next-2012")}]),
                sc \in PartialDicts([publisher |-> {None, Some("schema-publisher")},
                                     page_count |-> {Some("0"), Some("schema-310")}]) \cup
                       PartialDicts([language |-> {None, Some("schema-en")}]),
                t \in {[publication_year |-> y, publisher |-> pb, page_count |-> pc,
                        language |-> None] :
                          y \in {None, Some("text-2013")}, pb \in {None, Some("text-publisher")},
                          pc \in {None, Some("text-320")}}}
        \* documents with genre buttons or a cover image
        GenreCoverDocs ==
            {[EmptyDoc EXCEPT !.schema_data = sc, !.genres = g, !.cover_url = c] :
                sc \in PartialDicts([cover_image_url |-> {Some("schema-cover")}]),
                g \in {Some("[]"), Some("text-genres")},
                c \in {None, Some("text-cover")}}
    IN  IsbnDocs \cup RatingDocs \cup PublicationDocs \cup GenreCoverDocs

CallParseBookPage ==
    /\ op = "none"
    /\ \E doc \in BookDocs :
        /\ op' = "parse_book_page"
        /\ arg' = doc
        /\ ret' = parse_book_page(doc)
        /\ UNCHANGED <<fetch_vars, scrape_vars>>

(***************************************************************************)
(* library_parser.py: extract_books_from_table and parse_book_row.  A row  *)
(* of the table is its book id, the texts its title link and its author    *)
(* link give after sanitize_text (no key when the cell or the link is      *)
(* missing, None when the link has no text), and whether one of the other  *)
(* cell extractors raises on it.                                           *)
(***************************************************************************)
TableRows ==
    {[goodreads_id |-> g, cells |-> c, raises |-> r] :
        g \in {"1", "2"},
        c \in PartialDicts([title |-> {None, Some("Title")},
                            author |-> {None, Some("Author")}]),
        r \in BOOLEAN}

\* line 197: 'title' in book_data and 'author' in book_data
HasRequiredFields(book_data) ==
    /\ "title" \in DOMAIN book_data
    /\ "author" \in DOMAIN book_data

\* parse_book_row: the dict of the row, None, or an exception
parse_book_row(row) ==
    LET book_data == DictUpdate([goodreads_id |-> Some(row.goodreads_id)], row.cells)
    IN  IF row.raises THEN Raised("Exception")
        ELSE IF HasRequiredFields(book_data) THEN Ok(Some(book_data))
        ELSE Ok(None)

\* lines 121-130: the loop over the rows
RECURSIVE extract_books_from_table(_)
extract_books_from_table(book_rows) ==
    IF book_rows = <<>> THEN <<>>
    ELSE (IF parse_book_row(Head(book_rows)).ok /\
             ~IsNone(parse_book_row(Head(book_rows)).value)
          THEN <<Get(parse_book_row(Head(book_rows)).value)>>
          ELSE <<>>)
         \o extract_books_from_table(Tail(book_rows))

CallExtractBooksFromTable ==
    /\ op = "none"
    /\ \E book_rows \in SeqsUpTo(TableRows, MaxTableRows) :
        /\ op' = "extract_books_from_table"
        /\ arg' = book_rows
        /\ ret' = extract_books_from_table(book_rows)
        /\ UNCHANGED <<fetch_vars, scrape_vars>>

(***************************************************************************)
(* json_exporter.py: export_book_to_file and export_library_to_directory.  *)
(* The directory is the set of its files, a file being its name and the    *)
(* item it holds; writing to a name that exists replaces the file.         *)
(***************************************************************************)
\* lines 119-133: the date prefix of a publication date that is set
DatePrefix ==
    [pub_str \in STRING |->
        CASE pub_str = "2021-01-15" -> "20210115"
          [] pub_str = "January 15, 2021" -> "20210000"
          [] pub_str = "April 22, 2003" -> "20030000"
          [] OTHER -> "00000000"]

\* lines 113-135: the date prefix of the file name
PubDateStr(publication_date) ==
    IF IsNone(publication_date) THEN "00000000" ELSE DatePrefix[Get(publication_date)]

\* lines 138-147: the title as it stands in the file name
TitleClean ==
    [title \in STRING |->
        CASE title = "Dune!" -> "Dune"
          [] title = "Dune Messiah" -> "Dune_Messiah"
          [] title = "???" -> ""
          [] OTHER -> title]

\* line 149
BookFileName(user_book) ==
    <<PubDateStr(user_book.publication_date), "_", TitleClean[user_book.title], ".json">>

\* open(output_path, 'w') and json.dump
WriteFile(files, name, content) ==
    {f \in files : f.name # name} \cup {[name |-> name, content |-> content]}

\* export_book_to_file: the directory after the call, or the error of a
\* write that fails
export_book_to_file(files, user_book) ==
    IF user_book.write_fails THEN Raised("OSError")
    ELSE Ok(WriteFile(files, BookFileName(user_book), user_book.goodreads_id))

\* lines 205-215: the loop over the items
RECURSIVE ExportBooks(_, _, _)
ExportBooks(user_books, files, exported_count) ==
    IF user_books = <<>> THEN [files |-> files, exported_count |-> exported_count]
    ELSE IF export_book_to_file(files, Head(user_books)).ok
         THEN ExportBooks(Tail(user_books),
                          export_book_to_file(files, Head(user_books)).value,
                          exported_count + 1)
         ELSE ExportBooks(Tail(user_books), files, exported_count)

MetadataFileName == <<"_library_metadata.json">>

export_library_to_directory(user_books) ==
    ExportBooks(user_books, WriteFile({}, MetadataFileName, "metadata"), 0)

ExportItems ==
    [goodreads_id : {"1", "2", "3"},
     title : {"Dune", "Dune!", "Dune Messiah"},
     publication_date : {None, Some("2021-01-15"), Some("January 15, 2021")},
     write_fails : BOOLEAN]

\* the items of a Library: no two with the same id
ExportLibraries ==
    {ub \in SeqsUpTo(ExportItems, MaxItems) :
        \A j, k \in 1..Len(ub) : j < k => ub[j].goodreads_id # ub[k].goodreads_id}

CallExportLibraryToDirectory ==
    /\ op = "none"
    /\ \E user_books \in ExportLibraries :
        /\ op' = "export_library_to_directory"
        /\ arg' = user_books
        /\ ret' = export_library_to_directory(user_books)
        /\ UNCHANGED <<fetch_vars, scrape_vars>>

(***************************************************************************)
(* scrape_library from the profile URL to the Library, every fetch         *)
(* succeeding: validation, the username cut out of the URL, the listing    *)
(* URLs, the username of the discovery page, the Library aggregate.        *)
(***************************************************************************)
\* lines 117-123
UrlUsername(normalized_url) ==
    IF ~HasChar(normalized_url, "-") THEN <<"unknown">>
    ELSE IF ~HasChar(AfterLast(normalized_url, "/user/show/"), "-") THEN <<"unknown">>
    ELSE BeforeFirst(BeforeFirst(AfterFirst(AfterLast(normalized_url, "/user/show/"), "-"),
                                 "?"), "/")

\* lines 143-146
ResolveUsername(parsed_username, url_username) ==
    IF parsed_username # <<>> /\ parsed_username # <<"unknown">>
    THEN parsed_username ELSE url_username

\* Library(...): user_id and username have min_length 1
LibraryRaises(kwargs) == kwargs.user_id = "" \/ kwargs.username = <<>>

\* what scrape_library does with a profile URL, a discovery page with the
\* given username and one page of one shelf to crawl: the listing URLs it
\* builds and the Library it returns or the exception that leaves it
ScrapeProfile(profile_url, parsed_username, page_num_, shelf_slug) ==
    LET validated == validate_goodreads_profile_url(profile_url)
        normalized_url == validated.normalized_url
        initial_library_url == build_library_url(normalized_url, 1, "all")
        library_url == build_library_url(normalized_url, page_num_, shelf_slug)
        resolved == ResolveUsername(parsed_username, UrlUsername(normalized_url))
        kwargs == [user_id |-> Get(validated.user_id), username |-> resolved,
                   profile_url |-> normalized_url, user_books |-> <<>>]
    IN  IF ~validated.is_valid \/ IsNone(validated.user_id)
        THEN [listing_urls |-> <<>>, outcome |-> Raised("InvalidURLError")]
        ELSE IF ~initial_library_url.ok
        THEN [listing_urls |-> <<>>, outcome |-> Raised("ValueError")]
        ELSE IF LibraryRaises(kwargs)
        THEN [listing_urls |-> <<initial_library_url.value, library_url.value>>,
              outcome |-> Raised("ValidationError")]
        ELSE [listing_urls |-> <<initial_library_url.value, library_url.value>>,
              outcome |-> Ok(kwargs)]

\* the profile URLs a caller gives
GivenProfileUrls ==
    {<<sc>> \o w \o <<"goodreads.com", p, n>> \o sl \o q :
        sc \in {"https://", "http://", "ftp://"},
        w \in Opt({"www."}),
        p \in {"/user/show/", "/User/Show/"},
        n \in {"123", "7"},
        sl \in Opt({"-tim-brown"}),
        q \in {<<>>, <<"?", "page=2">>, <<"?", "x=-">>,
               <<"?", "next=", "/user/show/", "7">>}}

\* the username parse_library_page finds on the discovery page
ParsedUsernames == {<<>>, <<"unknown">>, <<"alice">>}

CallScrapeProfile ==
    /\ op = "none"
    /\ \E profile_url \in GivenProfileUrls, parsed_username \in ParsedUsernames,
          page_num_ \in 1..MaxPages, shelf_slug \in {"read", "to-read"} :
        /\ op' = "scrape_library"
        /\ arg' = [profile_url |-> profile_url, parsed_username |-> parsed_username,
                   page_num |-> page_num_, shelf_slug |-> shelf_slug]
        /\ ret' = ScrapeProfile(profile_url, parsed_username, page_num_, shelf_slug)
        /\ UNCHANGED <<fetch_vars, scrape_vars>>

NextLib ==
    \/ ConstructReadRecord
    \/ ConstructUserBookRelation
    \/ CallConvertToModels
    \/ CallNormalizeGenres
    \/ ConstructBookGenres
    \/ CallLibraryToCsvRows
    \/ CallValidateUrl
    \/ CallBuildLibraryUrl
    \/ CallPaginationDetectors
    \/ CallParseBookPage
    \/ CallExtractBooksFromTable
    \/ CallExportLibraryToDirectory
    \/ CallScrapeProfile
    \/ CallGetBooksByStatus

SpecLib == InitLib /\ [][NextLib]_vars

(***************************************************************************)
(* C14: _convert_to_models returns, in input order, one relation for each  *)
(* row whose models can be constructed and none for the others; a row      *)
(* without a shelf list, or with an empty one, whose other values are      *)
(* valid is converted, with the single shelf "unknown" that is not         *)
(* built-in; every relation has at least one shelf and the result is never *)
(* longer than the input.                                                  *)
(***************************************************************************)
ConversionNeverAborts ==
    op = "_convert_to_models" =>
        LET kept == SelectSeq(arg, Converts)
            NoShelves(r) == IsNone(r.shelves) \/ Get(r.shelves) = <<>>
            OtherwiseValid(r) ==
                /\ \A k \in 1..Len(RawReadRecords(r)) : ValidReadRecord(RawReadRecords(r)[k])
                /\ IsNone(r.reading_status) \/ Get(r.reading_status) \in ReadingStatus
        IN  /\ Len(ret) = Len(kept)
            /\ Len(ret) <= Len(arg)
            /\ \A m \in 1..Len(ret) :
                   /\ ret[m].goodreads_id = kept[m].goodreads_id
                   /\ Len(ret[m].shelves) >= 1
                   /\ NoShelves(kept[m]) =>
                          ret[m].shelves = <<[name |-> "unknown", is_builtin |-> FALSE]>>
            /\ \A k \in 1..Len(arg) :
                   (NoShelves(arg[k]) /\ OtherwiseValid(arg[k])) => Converts(arg[k])

\* a row that fails validation is followed by a row without shelves: the
\* result is the second row alone, on the shelf "unknown"
ConversionNeverAbortsWitness ==
    /\ op = "_convert_to_models"
    /\ Len(arg) = 2
    /\ arg[1].reading_status = Some("bogus")
    /\ arg[2].goodreads_id = 2
    /\ IsNone(arg[2].shelves)
    /\ Len(ret) = 1
    /\ ret[1].goodreads_id = 2
    /\ ret[1].shelves = <<[name |-> "unknown", is_builtin |-> FALSE]>>

(***************************************************************************)
(* C16: a constructed UserBookRelation has at least one shelf, no two of   *)
(* its shelves have names equal ignoring case, and its shelves are the     *)
(* first occurrences of the names given, in the order given (read, READ,   *)
(* favorites gives read, favorites); construction with no shelf fails.     *)
(***************************************************************************)
ShelfDedupInvariant ==
    op = "UserBookRelation" =>
        /\ arg.shelves = <<>> => ~ret.ok
        /\ ret.ok =>
               LET given == arg.shelves
                   shelves == ret.value.shelves
                   SameName(x, y) == Lower(x.name) = Lower(y.name)
                   \* where the name of the m-th shelf kept was first given
                   first(m) == CHOOSE k \in 1..Len(given) :
                                   /\ SameName(given[k], shelves[m])
                                   /\ \A j \in 1..(k - 1) : ~SameName(given[j], shelves[m])
               IN  /\ Len(shelves) >= 1
                   /\ \A j, k \in 1..Len(shelves) :
                          j < k => ~SameName(shelves[j], shelves[k])
                   /\ \A k \in 1..Len(given) :
                          \E m \in 1..Len(shelves) : SameName(given[k], shelves[m])
                   /\ \A m \in 1..Len(shelves) :
                          /\ \E k \in 1..Len(given) : SameName(given[k], shelves[m])
                          /\ shelves[m] = given[first(m)]
                   /\ \A j, k \in 1..Len(shelves) : j < k => first(j) < first(k)
                   /\ arg.shelf_names = <<"read", "READ", "favorites">> =>
                          shelves = <<[name |-> "read", is_builtin |-> FALSE],
                                      [name |-> "favorites", is_builtin |-> FALSE]>>

ShelfDedupInvariantWitness ==
    /\ op = "UserBookRelation"
    /\ arg.shelf_names = <<"read", "READ", "favorites">>
    /\ ret.ok
    /\ Len(ret.value.shelves) = 2

(***************************************************************************)
(* C17: constructing a ReadRecord, or a UserBookRelation given             *)
(* date_started and date_finished, with the start after the finish fails;  *)
(* no relation that _convert_to_models returns holds a read record whose   *)
(* start is after its finish.                                              *)
(***************************************************************************)
ReadRecordsOrdered ==
    LET Reversed(r) == /\ ~IsNone(r.date_started)
                       /\ ~IsNone(r.date_finished)
                       /\ Get(r.date_started) > Get(r.date_finished)
    IN  /\ (op = "ReadRecord" /\ Reversed(arg)) => ~ret.ok
        /\ (op = "UserBookRelation" /\ Reversed(arg)) => ~ret.ok
        /\ op = "_convert_to_models" =>
               \A m \in 1..Len(ret) : \A k \in 1..Len(ret[m].read_records) :
                   ~Reversed(ret[m].read_records[k])

(***************************************************************************)
(* C18: genre normalization returns a list that it maps to itself, without *)
(* two entries equal ignoring case, every entry trimmed, lowercased and at *)
(* most 50 characters long, at most 100 entries; no input list is          *)
(* rejected.                                                               *)
(***************************************************************************)
GenreNormalization ==
    op \in {"normalize_genres", "Book.genres"} =>
        /\ ret.ok
        /\ LET out == ret.value
           IN  /\ op = "normalize_genres" => normalize_genres(out) = out
               /\ op = "Book.genres" => BookGenres(out) = Ok(out)
               /\ \A j, k \in 1..Len(out) : j < k => LowerChars(out[j]) # LowerChars(out[k])
               /\ \A k \in 1..Len(out) :
                      /\ StripChars(out[k]) = out[k]
                      /\ LowerChars(out[k]) = out[k]
                      /\ Len(out[k]) <= 50
               /\ Len(out) <= 100

(***************************************************************************)
(* C19: library_to_csv_rows returns, for every Library, one row per item   *)
(* and shelf, in item order then shelf order, the rows of one item equal   *)
(* in every column but shelf_name and is_builtin_shelf; the number of rows *)
(* is the sum of the items' shelf counts.                                  *)
(***************************************************************************)
RECURSIVE ShelfTotal(_, _)
ShelfTotal(user_books, n) ==
    IF n = 0 THEN 0 ELSE ShelfTotal(user_books, n - 1) + Len(user_books[n].shelves)

CsvFlattening ==
    op = "library_to_csv_rows" =>
        /\ ret.ok
        /\ Len(ret.value) = ShelfTotal(arg.user_books, Len(arg.user_books))
        /\ \A n \in 1..Len(arg.user_books) :
               \A k \in 1..Len(arg.user_books[n].shelves) :
                   LET row == ret.value[ShelfTotal(arg.user_books, n - 1) + k]
                       first == ret.value[ShelfTotal(arg.user_books, n - 1) + 1]
                   IN  /\ row.goodreads_book_id = arg.user_books[n].goodreads_id
                       /\ row.shelf_name = arg.user_books[n].shelves[k].name
                       /\ row.is_builtin_shelf =
                              (IF arg.user_books[n].shelves[k].is_builtin
                               THEN "true" ELSE "false")
                       /\ [row EXCEPT !.shelf_name = "", !.is_builtin_shelf = ""] =
                          [first EXCEPT !.shelf_name = "", !.is_builtin_shelf = ""]

(***************************************************************************)
(* C20: validate_goodreads_profile_url never raises.  It accepts exactly   *)
(* the strings that, once surrounding whitespace is stripped, match the    *)
(* profile-URL grammar ignoring case (http or https, optional www.,        *)
(* goodreads.com/user/show/, numeric id, optional -slug, optional ? and    *)
(* any text); for them it returns is_valid true, the id segment as user    *)
(* id, and https://www.goodreads.com followed by the path as written and,  *)
(* when the query is not empty, ? and the query (a #fragment is left out). *)
(* For every other string it returns is_valid false, an empty URL and no   *)
(* user id.                                                                *)
(***************************************************************************)
AcceptedUrls ==
    {[url |-> l \o <<sc>> \o w \o <<"goodreads.com", p, n>> \o sl \o q.given \o r,
      user_id |-> n,
      normalized_url |-> <<"https://", "www.", "goodreads.com", p, n>> \o sl \o q.kept] :
        l \in Opt({" "}),
        sc \in {"https://", "http://", "HTTPS://"},
        w \in Opt({"www."}),
        p \in {"/user/show/", "/User/Show/"},
        n \in {"123", "7"},
        sl \in Opt({"-tim-brown"}),
        q \in {[given |-> <<>>, kept |-> <<>>],
               [given |-> <<"?">>, kept |-> <<>>],
               [given |-> <<"?", "page=2">>, kept |-> <<"?", "page=2">>],
               [given |-> <<"?", "page=2", "#", "top">>, kept |-> <<"?", "page=2">>]},
        r \in Opt({" "})}

ValidatesProfileUrls ==
    op = "validate_goodreads_profile_url" =>
        LET hits == {a \in AcceptedUrls : a.url = arg}
        IN  IF hits # {}
            THEN \A a \in hits : ret = [is_valid |-> TRUE,
                                        normalized_url |-> a.normalized_url,
                                        user_id |-> Some(a.user_id)]
            ELSE ret = [is_valid |-> FALSE, normalized_url |-> <<>>, user_id |-> None]

\* a URL in capitals with a space before it is accepted
ValidatesProfileUrlsWitness ==
    /\ op = "validate_goodreads_profile_url"
    /\ arg = <<" ", "HTTPS://", "goodreads.com", "/user/show/", "7", "-tim-brown",
               "?", "page=2">>
    /\ ret.is_valid
    /\ ret.user_id = Some("7")
    /\ ret.normalized_url = <<"https://", "www.", "goodreads.com", "/user/show/", "7",
                              "-tim-brown", "?", "page=2">>

\* the strings of the canonical grammar as written: lower case, nothing
\* around them, no fragment
CanonicalUrls ==
    {a \in AcceptedUrls :
        /\ a.url[1] \in {"https://", "http://"}
        /\ \A k \in 1..Len(a.url) : a.url[k] \notin {" ", "#", "/User/Show/"}}

\* the statement that exactly the canonical strings are accepted (a string
\* with a fragment is left aside)
ValidatesExactlyCanonical ==
    op = "validate_goodreads_profile_url" =>
        LET hits == {a \in CanonicalUrls : a.url = arg}
        IN  IF hits # {}
            THEN \A a \in hits : ret = [is_valid |-> TRUE,
                                        normalized_url |-> a.normalized_url,
                                        user_id |-> Some(a.user_id)]
            ELSE (\A k \in 1..Len(arg) : arg[k] # "#") =>
                     (~ret.is_valid /\ IsNone(ret.user_id))

(***************************************************************************)
(* C21 (as amended): build_library_url raises ValueError exactly when the  *)
(* profile URL does not contain /user/show/; otherwise it returns the      *)
(* review-list URL of the id, followed by page=<page> only when page > 1    *)
(* and by shelf=<shelf> for every non-empty shelf, the default "all"       *)
(* included, so that with all arguments at their defaults the URL ends in  *)
(* ?shelf=all; only an empty shelf with page <= 1 gives no query string.   *)
(***************************************************************************)
BuildsListingUrl ==
    op = "build_library_url" =>
        /\ ret.ok <=> Contains(arg.profile_url, "/user/show/")
        /\ ret.ok =>
               LET pg == arg.page > 1
                   sh == arg.shelf # ""
               IN  /\ ret.value =
                          <<"https://", "www.", "goodreads.com", "/review/list/">> \o
                          ListUserId(arg.profile_url) \o
                          (IF pg \/ sh THEN <<"?">> ELSE <<>>) \o
                          (IF pg THEN <<"page=">> \o Decimal(arg.page) ELSE <<>>) \o
                          (IF pg /\ sh THEN <<"&">> ELSE <<>>) \o
                          (IF sh THEN <<"shelf=", arg.shelf>> ELSE <<>>)
                   /\ Contains(ret.value, "page=") <=> arg.page > 1
                   /\ (arg.page = 1 /\ arg.shelf = "all") =>
                          SubSeq(ret.value, Len(ret.value) - 2, Len(ret.value)) =
                              <<"?", "shelf=", "all">>

\* the defaults: page 1 of the shelf "all"
BuildsListingUrlWitness ==
    /\ op = "build_library_url"
    /\ arg = [profile_url |-> <<"https://", "www.", "goodreads.com", "/user/show/", "7",
                                "-tim-brown">>,
              page |-> 1, shelf |-> "all"]
    /\ ret = Ok(<<"https://", "www.", "goodreads.com", "/review/list/", "7",
                  "?", "shelf=", "all">>)

\* C21 as stated: a query parameter is emitted only for a non-default
\* argument (page only when page > 1, shelf only when the shelf is not
\* "all"), and with all arguments at their defaults there is no query string
OmitsDefaults ==
    (op = "build_library_url" /\ ret.ok) =>
        /\ Contains(ret.value, "page=") => arg.page > 1
        /\ Contains(ret.value, "shelf=") => arg.shelf # "all"
        /\ (arg.page = 1 /\ arg.shelf = "all") => ~Contains(ret.value, "?")

(***************************************************************************)
(* C22 as stated: on every document detect_pagination returns true exactly *)
(* when get_next_page_url returns a URL, detect_next_page agrees with      *)
(* them, and all three report absence when the document has no pagination  *)
(* block, no "next" link, or a "next" link without a usable href.          *)
(***************************************************************************)
PaginationDetectorsAgree ==
    op = "pagination" =>
        LET next_link == FindNextLink(arg)
            usable == /\ ~IsNone(next_link)
                      /\ ~IsNone(Get(next_link).href)
                      /\ Get(Get(next_link).href) # ""
        IN  /\ ret.detect_pagination <=> ~IsNone(ret.get_next_page_url)
            /\ ret.detect_next_page <=> ret.detect_pagination
            /\ ~usable => /\ ~ret.detect_pagination
                          /\ IsNone(ret.get_next_page_url)
                          /\ ~ret.detect_next_page

(***************************************************************************)
(* C23 as stated: in parse_book_page, once a strategy has produced a       *)
(* non-null value for one of the fields isbn, isbn13, publisher,           *)
(* page_count, language, genres, average_rating, ratings_count,            *)
(* cover_image_url, publication_year, no later strategy changes or clears  *)
(* that value.                                                             *)
(***************************************************************************)
FirstMatchWins ==
    op = "parse_book_page" =>
        \A field \in {"isbn", "isbn13", "publisher", "page_count", "language", "genres",
                      "average_rating", "ratings_count", "cover_image_url",
                      "publication_year"} :
            \A j, k \in 1..Len(ret) :
                (j < k /\ ~IsNone(DictGet(ret[j], field))) =>
                    DictGet(ret[k], field) = DictGet(ret[j], field)

(***************************************************************************)
(* C24 as stated: extract_books_from_table returns, in document order,     *)
(* exactly the rows that have a title and an author; every row returned    *)
(* has a non-null title and a non-null author; a row that lacks either, or *)
(* whose parsing raises, is skipped and the other rows are returned.       *)
(***************************************************************************)
ReturnsTitledRows ==
    op = "extract_books_from_table" =>
        LET Complete(row) == /\ ~row.raises
                             /\ ~IsNone(DictGet(row.cells, "title"))
                             /\ ~IsNone(DictGet(row.cells, "author"))
            kept == SelectSeq(arg, Complete)
        IN  /\ Len(ret) = Len(kept)
            /\ \A m \in 1..Len(ret) :
                   /\ DictGet(ret[m], "goodreads_id") = Some(kept[m].goodreads_id)
                   /\ DictGet(ret[m], "title") = DictGet(kept[m].cells, "title")
                   /\ DictGet(ret[m], "author") = DictGet(kept[m].cells, "author")
            /\ \A m \in 1..Len(ret) :
                   /\ ~IsNone(DictGet(ret[m], "title"))
                   /\ ~IsNone(DictGet(ret[m], "author"))

(***************************************************************************)
(* C25 as stated: after export_library_to_directory of a library with N    *)
(* items in which every write succeeds, the directory holds exactly N item *)
(* files, one distinct file per item, plus _library_metadata.json, and the *)
(* returned count equals the number of item files present.                 *)
(***************************************************************************)
OneFilePerItem ==
    (op = "export_library_to_directory" /\ \A k \in 1..Len(arg) : ~arg[k].write_fails) =>
        LET item_files == {f \in ret.files : f.name # MetadataFileName}
        IN  /\ Cardinality(item_files) = Len(arg)
            /\ \A k \in 1..Len(arg) :
                   \E f \in item_files : f.content = arg[k].goodreads_id
            /\ \E f \in ret.files : f.name = MetadataFileName
            /\ ret.exported_count = Cardinality(item_files)

(***************************************************************************)
(* C26 as stated: a _fetch_with_retry call issues at least one and at most *)
(* max_retries requests; when every attempt fails transiently it issues    *)
(* exactly max_retries requests, sleeps 2^k seconds after failed attempt k *)
(* (k = 0, 1, ...) only when another attempt follows, and raises           *)
(* NetworkError after the last one; when an attempt succeeds the call      *)
(* returns that attempt's body and issues no further request.              *)
(***************************************************************************)
RequestBudget ==
    /\ requests <= max_retries
    /\ fetch_result \notin {"none", "pending"} =>
           /\ requests >= 1
           /\ Len(backoffs) = requests - 1
           /\ \A k \in 1..Len(backoffs) : backoffs[k] = 2 ^ (k - 1)
    /\ (fetch_result = "NetworkError" /\ last_response \in Transient) =>
           requests = max_retries
    /\ fetch_result = "ok" => last_response = "200"

(***************************************************************************)
(* C27 as stated: for every profile URL the validator accepts, every       *)
(* listing URL that scrape_library builds (the discovery page and every    *)
(* per-shelf page) addresses the review list of the owner id the validator *)
(* extracted, which is the user_id of the Library.                         *)
(***************************************************************************)
ListingUrlsOfOwner ==
    (op = "scrape_library" /\ validate_goodreads_profile_url(arg.profile_url).is_valid) =>
        LET user_id == Get(validate_goodreads_profile_url(arg.profile_url).user_id)
            Owner(url) == BeforeFirst(SubSeq(url, 5, Len(url)), "?")
        IN  /\ \A k \in 1..Len(ret.listing_urls) :
                   /\ SubSeq(ret.listing_urls[k], 1, 4) =
                          <<"https://", "www.", "goodreads.com", "/review/list/">>
                   /\ Owner(ret.listing_urls[k]) = <<user_id>>
            /\ ret.outcome.ok => ret.outcome.value.user_id = user_id

(***************************************************************************)
(* C28 as stated: for every profile URL the validator accepts, when every  *)
(* fetch succeeds scrape_library returns a Library; the username it        *)
(* resolves is never empty, so the Library construction never fails.       *)
(***************************************************************************)
AcceptedProfileGivesLibrary ==
    (op = "scrape_library" /\ validate_goodreads_profile_url(arg.profile_url).is_valid) =>
        /\ ret.outcome.ok
        /\ ret.outcome.value.username # <<>>

(***************************************************************************)
(* C29: an item that carries the reading status S of the shelf it was      *)
(* crawled from keeps S through every step (the status page and the detail *)
(* page never change it), and once its status-page step has succeeded      *)
(* (its read records are set) its shelf list contains S: the list of the   *)
(* status page when that names S, and S put before that list otherwise.    *)
(***************************************************************************)
EnrichmentKeepsStatus ==
    [][\A k \in 1..Len(all_books) :
          ~IsNone(all_books[k].reading_status) =>
              /\ k <= Len(all_books')
              /\ all_books'[k].reading_status = all_books[k].reading_status
              /\ ~IsNone(all_books'[k].read_records) =>
                     /\ ~IsNone(all_books'[k].shelves)
                     /\ Contains(Get(all_books'[k].shelves), Get(all_books[k].reading_status))
              /\ (IsNone(all_books[k].read_records) /\ ~IsNone(all_books'[k].read_records)) =>
                     \E sp \in StatusPages :
                         Get(all_books'[k].shelves) =
                             IF Contains(sp.shelves, Get(all_books[k].reading_status))
                             THEN sp.shelves
                             ELSE <<Get(all_books[k].reading_status)>> \o sp.shelves]_vars

\* an item of the shelf "read" after both enrichment steps, its status page
\* listing no shelf: "read" is its only shelf
EnrichmentKeepsStatusWitness ==
    /\ phase \in {"convert", "returned"}
    /\ \E k \in 1..Len(all_books) :
          /\ all_books[k].reading_status = Some("read")
          /\ ~IsNone(all_books[k].read_records)
          /\ all_books[k].shelves = Some(<<"read">>)

(***************************************************************************)
(* C30 as stated: library_to_csv_rows and Library.get_books_by_status      *)
(* complete without error for every valid Library, the ones with relations *)
(* whose reading status is None included.                                  *)
(***************************************************************************)
ConsumersTotal ==
    op \in {"library_to_csv_rows", "get_books_by_status"} => ret.ok

====
